---- MODULE Spec2Model ----
(***************************************************************************)
(* Payout parsing and aggregation of the heist cogs (heistsummary.py and   *)
(* the heist auto calculator), as a state machine.                         *)
(*                                                                         *)
(* Strings are sequences of symbols.  A symbol is one character ("1", ".", *)
(* "k", " "), or a fixed run of characters that the code can only treat as *)
(* a unit: a word of one of the literal phrases the regular expressions    *)
(* look for, or LongNines, a run of 400 characters "9".                    *)
(*                                                                         *)
(* A Python float is modelled by the decimal it was read from, exactly:    *)
(* [kind |-> "float", n, d, e] is (n / d) * 10^e in lowest terms (n is not *)
(* a multiple of 10, d has no factor 2 or 5, gcd(n, d) = 1), so equal      *)
(* numbers are equal records.  [kind |-> "inf"] is the float infinity that *)
(* float() returns for a numeral beyond the double range.  The rounding of *)
(* binary floating point below 15 significant digits is not modelled.      *)
(***************************************************************************)
EXTENDS Integers, Sequences, FiniteSets, TLC

VARIABLES
    raw,                 \* SpecParse: the string handed to a parsing helper
    body,                \* SpecParse: the text (a list of lines) handed to the line scan
    call,                \* SpecParse: the helper that was applied ("none" before)
    result,              \* SpecParse: what the helper returned
    amount,              \* SpecFormat: the float handed to a formatting helper
    history,             \* the channel's messages, oldest first; a message's id is its index
    processed_messages,  \* HeistCalculatorCog.processed_messages
    config_data,         \* HeistCalculatorCog.config_data of the guild
    replies,             \* replies[id]: the replies the listener sent to message id
    raised,              \* ids of the messages whose on_message call ended in an exception
    summary,             \* what the last heist_summary command answered and posted
    delivered,           \* SpecListen: delivered[id] counts the on_message calls of message id
    pending,             \* SpecListen: the on_message calls waiting at an await of their reply, in order of start
    answers,             \* SpecListen: what the configuration commands answered, in order
    config_file,         \* the guild's entry in the file save_config writes
    now,                 \* SpecSpree: the clock, discord.utils.utcnow() in seconds
    guild,               \* the channels of the guild: guild[id] is when id was created
    ephemeral_categories,\* SpreeCog.ephemeral_categories
    ephemeral_channels,  \* SpreeCog.ephemeral_channels, in insertion order
    spree_data,          \* what save_data wrote last
    loop,                \* the task of update_embeds_loop
    handlers,            \* the calls of the event and button handlers, in order of start
    deleted              \* the channel.delete calls update_embeds_loop issued

parseVars == <<raw, body, call, result, amount>>
listenVars == <<delivered, pending, answers, config_file>>
botVars == <<history, processed_messages, config_data, replies, raised, summary,
             delivered, pending, answers, config_file>>
spreeVars == <<now, guild, ephemeral_categories, ephemeral_channels, spree_data,
               loop, handlers, deleted>>
vars == <<raw, body, call, result, amount, history, processed_messages, config_data,
          replies, raised, summary, delivered, pending, answers, config_file,
          now, guild, ephemeral_categories,
          ephemeral_channels, spree_data, loop, handlers, deleted>>

(***************************************************************************)
(* Bounds of the model.                                                    *)
(***************************************************************************)
MaxLen == 4          \* longest enumerated input string of a parsing helper
MaxLines == 3        \* most lines of an enumerated text
MaxHist == 3         \* most messages in the channel

(***************************************************************************)
(* Symbols.                                                                *)
(***************************************************************************)
Glyph == "⏣"
LongNines == "9{400}"

DigitChars == {"0", "1", "2", "3", "4", "5", "6", "7", "8", "9", LongNines}
NumChars == DigitChars \cup {"."}
SuffixChars == {"k", "K", "m", "M", "b", "B"}
Whitespace == {" "}

\* str.upper() / str.lower(), on the symbols that have a case
upper(c) ==
    CASE c = "k" -> "K"
      [] c = "m" -> "M"
      [] c = "b" -> "B"
      [] OTHER -> c

(***************************************************************************)
(* Python values.                                                          *)
(***************************************************************************)
None == [kind |-> "None"]
Inf == [kind |-> "inf"]
ValueError == [kind |-> "ValueError"]
OverflowError == [kind |-> "OverflowError"]
ZeroDivisionError == [kind |-> "ZeroDivisionError"]

IsFloat(v) == v.kind \in {"float", "inf"}
IsException(v) ==
    v.kind \in {"ValueError", "OverflowError", "ZeroDivisionError"}

RECURSIVE Pow10(_)
Pow10(k) == IF k <= 0 THEN 1 ELSE 10 * Pow10(k - 1)

RECURSIVE Gcd(_, _)
Gcd(a, b) == IF b = 0 THEN a ELSE Gcd(b, a % b)

\* the exponent of prime p in c (c > 0)
RECURSIVE Mult(_, _)
Mult(c, p) == IF c % p = 0 THEN 1 + Mult(c \div p, p) ELSE 0

RECURSIVE Pow(_, _)
Pow(b, k) == IF k <= 0 THEN 1 ELSE b * Pow(b, k - 1)

\* n * 10^e with the factors of 10 of n moved into the exponent
RECURSIVE Norm10(_, _, _)
Norm10(n, d, e) ==
    IF n = 0 THEN [kind |-> "float", n |-> 0, d |-> 1, e |-> 0]
    ELSE IF n % 10 = 0 THEN Norm10(n \div 10, d, e + 1)
    ELSE [kind |-> "float", n |-> n, d |-> d, e |-> e]

\* the float (n / d) * 10^e, for n >= 0 and d > 0
Float(n, d, e) ==
    LET g == Gcd(n, d)
        n1 == n \div g
        d1 == d \div g
        a == Mult(d1, 2)
        b == Mult(d1, 5)
        \* 1 / (2^a * 5^b) = 5^a * 2^b / 10^(a+b)
        d2 == d1 \div (Pow(2, a) * Pow(5, b))
    IN  IF n = 0 THEN Norm10(0, 1, 0)
        ELSE Norm10(n1 * Pow(5, a) * Pow(2, b), d2, e - a - b)

(***************************************************************************)
(* String helpers of the Python runtime.                                   *)
(***************************************************************************)
\* s.replace(c, "")
Remove(s, c) == SelectSeq(s, LAMBDA x : x # c)

RECURSIVE LStrip(_)
LStrip(s) ==
    IF s # <<>> /\ Head(s) \in Whitespace THEN LStrip(Tail(s)) ELSE s

RECURSIVE RStrip(_)
RStrip(s) ==
    IF s # <<>> /\ s[Len(s)] \in Whitespace
    THEN RStrip(SubSeq(s, 1, Len(s) - 1))
    ELSE s

\* s.strip()
Strip(s) == RStrip(LStrip(s))

\* the length of the longest prefix of s made of symbols of set cls: what a
\* greedy [cls]+ or [cls]* takes at the start of s
RECURSIVE RunLen(_, _)
RunLen(s, cls) ==
    IF s # <<>> /\ Head(s) \in cls THEN 1 + RunLen(Tail(s), cls) ELSE 0

Count(s, c) == Len(SelectSeq(s, LAMBDA x : x = c))

\* the index of the first c in s, Len(s) + 1 when there is none
RECURSIVE IndexOf(_, _)
IndexOf(s, c) ==
    IF s = <<>> \/ Head(s) = c THEN 1 ELSE 1 + IndexOf(Tail(s), c)

DigitVal(c) ==
    CASE c = "0" -> 0
      [] c = "1" -> 1
      [] c = "2" -> 2
      [] c = "3" -> 3
      [] c = "4" -> 4
      [] c = "5" -> 5
      [] c = "6" -> 6
      [] c = "7" -> 7
      [] c = "8" -> 8
      [] c = "9" -> 9

\* the integer a string of decimal digits denotes
RECURSIVE DigitsToInt(_)
DigitsToInt(s) ==
    IF s = <<>> THEN 0
    ELSE 10 * DigitsToInt(SubSeq(s, 1, Len(s) - 1)) + DigitVal(s[Len(s)])

(***************************************************************************)
(* float(num_str) for a string of digits and dots (all that the regular    *)
(* expressions let through): ValueError unless it holds at most one dot    *)
(* and at least one digit; infinity when the integer part is beyond the    *)
(* double range; and a fraction that runs into 400 nines is the double     *)
(* next above the digits before them (float("1.5" + "9" * 400) = 1.6).     *)
(***************************************************************************)
float(num_str) ==
    LET dot == IndexOf(num_str, ".")
        ip == SubSeq(num_str, 1, dot - 1)
        fp == SubSeq(num_str, dot + 1, Len(num_str))
        cut == IndexOf(fp, LongNines)
        fd == SubSeq(fp, 1, cut - 1)
        up == IF cut <= Len(fp) THEN 1 ELSE 0
    IN  IF Count(num_str, ".") > 1 \/ Len(num_str) - Count(num_str, ".") = 0
        THEN ValueError
        ELSE IF Count(ip, LongNines) > 0 THEN Inf
        ELSE Float(DigitsToInt(ip \o fd) + up, 1, 0 - Len(fd))

\* v * 10^k, the float product with 1_000, 1_000_000 or 1_000_000_000
Times10(v, k) ==
    IF v.kind = "inf" \/ v.n = 0 THEN v ELSE [v EXCEPT !.e = @ + k]

(***************************************************************************)
(* heistsummary.py:23-61 (the heist auto calculator holds the same two     *)
(* helpers, part_000:39-76, differing only in log calls).                  *)
(***************************************************************************)
\* variant of the expression: r"(\d*\.?\d*)([kKmMbB]?)", a numeral of at most
\* one decimal point
MatchNumSuffix_OneDot(text) ==
    LET a == RunLen(text, DigitChars)
        dot == IF a < Len(text) /\ text[a + 1] = "." THEN 1 ELSE 0
        k == a + dot + RunLen(SubSeq(text, a + dot + 1, Len(text)), DigitChars)
    IN  IF k = 0 THEN None
        ELSE [kind |-> "match",
              num_str |-> SubSeq(text, 1, k),
              suffix |-> IF k < Len(text) /\ text[k + 1] \in SuffixChars
                         THEN <<text[k + 1]>>
                         ELSE <<>>]

\* re.match(r"([\d\.]+)([kKmMbB]?)", text): the groups, or None
MatchNumSuffix(text) ==
    LET k == RunLen(text, NumChars)
    IN  IF k = 0 THEN None
        ELSE [kind |-> "match",
              num_str |-> SubSeq(text, 1, k),
              suffix |-> IF k < Len(text) /\ text[k + 1] \in SuffixChars
                         THEN <<text[k + 1]>>
                         ELSE <<>>]

\* variant of parse_currency_value: the suffix is looked up as written,
\* without .upper()
parse_currency_value_CaseSensitive(s) ==
    IF s = <<>> THEN None
    ELSE
        LET text == Strip(Remove(Remove(s, Glyph), ","))
            match == MatchNumSuffix(text)
            suffix == IF match.suffix = <<>> THEN "" ELSE match.suffix[1]
            base_val == float(match.num_str)
        IN  IF match = None THEN None
            ELSE IF base_val = ValueError THEN None
            ELSE IF suffix = "K" THEN Times10(base_val, 3)
            ELSE IF suffix = "M" THEN Times10(base_val, 6)
            ELSE IF suffix = "B" THEN Times10(base_val, 9)
            ELSE base_val

parse_currency_value(s) ==
    IF s = <<>> THEN None
    ELSE
        LET text == Strip(Remove(Remove(s, Glyph), ","))
            match == MatchNumSuffix(text)
            suffix == IF match.suffix = <<>> THEN "" ELSE upper(match.suffix[1])
            base_val == float(match.num_str)
        IN  IF match = None THEN None
            ELSE IF base_val = ValueError THEN None
            ELSE IF suffix = "K" THEN Times10(base_val, 3)
            ELSE IF suffix = "M" THEN Times10(base_val, 6)
            ELSE IF suffix = "B" THEN Times10(base_val, 9)
            ELSE base_val

\* re.match(r"([\d\.]+)", text): group 1, or None
MatchNum(text) ==
    LET k == RunLen(text, NumChars)
    IN  IF k = 0 THEN None
        ELSE [kind |-> "match", num_str |-> SubSeq(text, 1, k)]

\* variant of parse_plain_number: the scale suffix is applied as well
parse_plain_number_Scaled(s) == parse_currency_value(s)

parse_plain_number(s) ==
    IF s = <<>> THEN None
    ELSE
        LET text == Strip(Remove(s, ","))
            match == MatchNum(text)
            val == float(match.num_str)
        IN  IF match = None THEN None
            ELSE IF val = ValueError THEN None
            ELSE val

(***************************************************************************)
(* Number formatting, heistsummary.py:63-87 (the heist auto calculator     *)
(* holds the same two helpers, part_000:78-97).  The text of a float is    *)
(* the sequence of its characters.                                         *)
(*                                                                         *)
(* The ".2f" conversion rounds the double to hundredths, half to even.  A  *)
(* double lies exactly halfway between two hundredths only when the        *)
(* decimal it was read from does and is a binary fraction too (x.125,      *)
(* x.375, x.625, x.875).  For any other decimal that ends halfway the      *)
(* double is the nearest one below or above it, which the model does not   *)
(* compute: tie says on which side it fell.                                *)
(***************************************************************************)
Digit == <<"0", "1", "2", "3", "4", "5", "6", "7", "8", "9">>
TieFalls == {"below", "above"}

\* str(n) of a natural number
RECURSIVE NatToStr(_)
NatToStr(n) ==
    IF n < 10 THEN <<Digit[n + 1]>>
    ELSE NatToStr(n \div 10) \o <<Digit[(n % 10) + 1]>>

\* the "," option of the format specification: a comma before every group
\* of three digits counted from the right
RECURSIVE Grouped(_)
Grouped(digits) ==
    IF Len(digits) <= 3 THEN digits
    ELSE Grouped(SubSeq(digits, 1, Len(digits) - 3)) \o <<",">>
             \o SubSeq(digits, Len(digits) - 2, Len(digits))

\* val rounded to hundredths: its whole part and its hundredths (0..99)
Round2(val, tie) ==
    LET num == IF val.e >= 0 THEN val.n * Pow10(val.e) ELSE val.n
        den == IF val.e >= 0 THEN val.d ELSE val.d * Pow10(0 - val.e)
        whole == num \div den
        \* (num % den) / den = (c + r / unit) / 100
        scaled == den % 100 = 0
        unit == IF scaled THEN den \div 100 ELSE den
        rest == IF scaled THEN num % den ELSE 100 * (num % den)
        c == rest \div unit
        r == rest % unit
        exact == (2 * c + 1) % 25 = 0
        up == IF 2 * r > unit THEN 1
              ELSE IF 2 * r < unit THEN 0
              ELSE IF exact THEN c % 2
              ELSE IF tie = "above" THEN 1 ELSE 0
    IN  IF c + up = 100 THEN [whole |-> whole + 1, cents |-> 0]
        ELSE [whole |-> whole, cents |-> c + up]

\* f"{val:,.2f}" when grouping, f"{val:.2f}" otherwise
Format2f(val, tie, grouping) ==
    IF val.kind = "inf" THEN <<"i", "n", "f">>
    ELSE
        LET r == CHOOSE x \in {Round2(val, tie)} : TRUE
            digits == NatToStr(r.whole)
        IN  (IF grouping THEN Grouped(digits) ELSE digits)
                \o <<".", Digit[(r.cents \div 10) + 1], Digit[(r.cents % 10) + 1]>>

\* s.endswith(suffix)
EndsWith(s, suffix) ==
    /\ Len(s) >= Len(suffix)
    /\ SubSeq(s, Len(s) - Len(suffix) + 1, Len(s)) = suffix

\* s.rstrip(c)
RECURSIVE RStripChar(_, _)
RStripChar(s, c) ==
    IF s # <<>> /\ s[Len(s)] = c
    THEN RStripChar(SubSeq(s, 1, Len(s) - 1), c)
    ELSE s

\* variant of format_number: the two decimals are always cut off
format_number_CutDecimals(val, tie) ==
    LET formatted == Format2f(val, tie, TRUE)
    IN  SubSeq(formatted, 1, Len(formatted) - 3)

\* variant of format_number: the text is returned as formatted
format_number_NoStrip(val, tie) == Format2f(val, tie, TRUE)

format_number(val, tie) ==
    LET formatted == CHOOSE x \in {Format2f(val, tie, TRUE)} : TRUE
    IN  IF EndsWith(formatted, <<".", "0", "0">>)
        THEN SubSeq(formatted, 1, Len(formatted) - 3)
        ELSE RStripChar(RStripChar(formatted, "0"), ".")

\* below it abbreviate_number gives the grouped form of format_number
THOUSAND == 1000

\* val >= 10^k, for k up to 9
AtLeastPow10(val, k) ==
    IF val.kind = "inf" THEN TRUE
    ELSE IF k - val.e > 9 THEN FALSE
    ELSE IF k - val.e >= 0 THEN val.n \div val.d >= Pow10(k - val.e)
    ELSE IF Pow10(val.e - k) >= val.d THEN val.n > 0
    ELSE val.n * Pow10(val.e - k) >= val.d

\* s = f"{val / 10^k:.2f}"; (s[:-3] if s.endswith(".00") else s) + letter
Abbreviated(val, tie, k, letter) ==
    LET s == CHOOSE x \in {Format2f(Times10(val, 0 - k), tie, FALSE)} : TRUE
    IN  (IF EndsWith(s, <<".", "0", "0">>)
         THEN SubSeq(s, 1, Len(s) - 3) ELSE s) \o <<letter>>

abbreviate_number(val, tie) ==
    IF AtLeastPow10(val, 9) THEN Abbreviated(val, tie, 9, "B")
    ELSE IF AtLeastPow10(val, 6) THEN Abbreviated(val, tie, 6, "M")
    ELSE IF AtLeastPow10(val, 3) THEN Abbreviated(val, tie, 3, "K")
    ELSE format_number(val, tie)

(***************************************************************************)
(* The regular expressions of the line scan, re.IGNORECASE.                *)
(* A literal phrase is the sequence of its words and spaces.               *)
(***************************************************************************)
lower(c) ==
    CASE c = "K" -> "k"
      [] c = "M" -> "m"
      [] c = "B" -> "b"
      [] c = "Amazing" -> "amazing"
      [] c = "Racked" -> "racked"
      [] c = "User" -> "user"
      [] OTHER -> c

TriggerPhrase == <<"amazing", " ", "job", " ", "everybody">>
RackedPhrase == <<"racked", " ", "up", " ", "a", " ", "total">>
UserWord == <<"user">>
PluralS == <<"s">>
GotPhrase == <<" ", "got", " ", "the", " ", "payout">>

TotalClass == DigitChars \cup {",", "."} \cup SuffixChars   \* [\d,\.kmKMbB]
CountClass == DigitChars \cup {",", "."}                    \* [\d,\.]
Backtick == "(backtick)"
Markers == {Backtick, "*"}                                  \* the class of r"[`\*]+"

Suffix(s, i) == SubSeq(s, i, Len(s))

Min(S) == CHOOSE x \in S : \A y \in S : x <= y

\* phrase p stands in s at index i, whatever the case
MatchAt(s, i, p) ==
    /\ i >= 1
    /\ i + Len(p) - 1 <= Len(s)
    /\ \A j \in 1..Len(p) : lower(s[i + j - 1]) = p[j]

\* p in s.lower()
Contains(s, p) == \E i \in 1..Len(s) : MatchAt(s, i, p)

\* "⏣\s*([\d,\.kmKMbB]+)" matches with its glyph at index g
GlyphMatch(line, g) ==
    /\ g <= Len(line)
    /\ line[g] = Glyph
    /\ LET w == RunLen(Suffix(line, g + 1), Whitespace)
       IN  RunLen(Suffix(line, g + 1 + w), TotalClass) >= 1

\* total_pattern.search(line), total_pattern =
\* r"racked up a total.*?⏣\s*([\d,\.kmKMbB]+)": the leftmost start of the
\* phrase from which a match exists, the lazy .*? stopping at the first glyph
\* that is followed by a token
total_pattern_search(line) ==
    LET L == Len(RackedPhrase)
        glyphs(i) == {g \in (i + L)..Len(line) : GlyphMatch(line, g)}
        starts == {i \in 1..Len(line) :
                      MatchAt(line, i, RackedPhrase) /\ glyphs(i) # {}}
    IN  IF starts = {} THEN None
        ELSE LET g == Min(glyphs(Min(starts)))
                 w == RunLen(Suffix(line, g + 1), Whitespace)
                 r == RunLen(Suffix(line, g + 1 + w), TotalClass)
             IN  [kind |-> "match",
                  group1 |-> SubSeq(line, g + w + 1, g + w + r)]

\* "([\d,\.]+)\s+user(?:s)? got the payout" matches starting at index i: the
\* greedy classes give back nothing that helps, so the run of [\d,\.] and
\* the run of \s are taken whole
CountMatchAt(line, i) ==
    LET r == RunLen(Suffix(line, i), CountClass)
        w == RunLen(Suffix(line, i + r), Whitespace)
        u == i + r + w
    IN  /\ r >= 1
        /\ w >= 1
        /\ MatchAt(line, u, UserWord)
        /\ \/ MatchAt(line, u + 1, PluralS) /\ MatchAt(line, u + 2, GotPhrase)
           \/ MatchAt(line, u + 1, GotPhrase)

\* count_pattern.search(line)
count_pattern_search(line) ==
    LET starts == {i \in 1..Len(line) : CountMatchAt(line, i)}
    IN  IF starts = {} THEN None
        ELSE LET i == Min(starts)
                 r == RunLen(Suffix(line, i), CountClass)
             IN  [kind |-> "match", group1 |-> SubSeq(line, i, i + r - 1)]

\* int(v) of a finite float v >= 0: truncation; int(inf) raises OverflowError
int(v) ==
    IF v.e >= 0 THEN (v.n * Pow10(v.e)) \div v.d
    ELSE v.n \div (v.d * Pow10(0 - v.e))

\* variant of the division: the share is the whole total
TrueDiv_NoDivide(v, c) == v

\* total_coins / payout_count
TrueDiv(v, c) ==
    IF c = 0 THEN ZeroDivisionError
    ELSE IF v.kind = "inf" THEN Inf
    ELSE Float(v.n, v.d * c, v.e)

(***************************************************************************)
(* The per-message line scan, heistsummary.py:138-154 (and the same loop   *)
(* at part_000:436-449): a text is the list of its lines.  The result is   *)
(* the pair after the last line, or the exception that int() raised.       *)
(***************************************************************************)
RECURSIVE ScanLines(_, _, _)

\* variant of the loop: the lines are matched as they are, markers included
ScanLines_MarkersKept(lines, total_coins, payout_count) ==
    IF lines = <<>>
    THEN [kind |-> "scanned", total_coins |-> total_coins,
          payout_count |-> payout_count]
    ELSE
        LET clean_line == Strip(Head(lines))
            m_tot == total_pattern_search(clean_line)
            val == parse_currency_value(<<Glyph, " ">> \o m_tot.group1)
            m_pay == count_pattern_search(clean_line)
            num_val == parse_plain_number(m_pay.group1)
        IN  IF m_pay # None /\ num_val # None /\ num_val.kind = "inf"
            THEN OverflowError
            ELSE ScanLines(Tail(lines),
                           IF m_tot # None /\ val # None THEN val ELSE total_coins,
                           IF m_pay # None /\ num_val # None
                           THEN int(num_val) ELSE payout_count)

\* variant of the loop: a total, once found, is kept
ScanLines_KeepFirstTotal(lines, total_coins, payout_count) ==
    IF lines = <<>>
    THEN [kind |-> "scanned", total_coins |-> total_coins,
          payout_count |-> payout_count]
    ELSE
        LET clean_line == Strip(SelectSeq(Head(lines), LAMBDA c : c \notin Markers))
            m_tot == total_pattern_search(clean_line)
            val == parse_currency_value(<<Glyph, " ">> \o m_tot.group1)
            m_pay == count_pattern_search(clean_line)
            num_val == parse_plain_number(m_pay.group1)
        IN  IF m_pay # None /\ num_val # None /\ num_val.kind = "inf"
            THEN OverflowError
            ELSE ScanLines(Tail(lines),
                           IF total_coins = None /\ m_tot # None /\ val # None
                           THEN val ELSE total_coins,
                           IF m_pay # None /\ num_val # None
                           THEN int(num_val) ELSE payout_count)

\* variant of the loop: a count, once found, is kept
ScanLines_KeepFirstCount(lines, total_coins, payout_count) ==
    IF lines = <<>>
    THEN [kind |-> "scanned", total_coins |-> total_coins,
          payout_count |-> payout_count]
    ELSE
        LET clean_line == Strip(SelectSeq(Head(lines), LAMBDA c : c \notin Markers))
            m_tot == total_pattern_search(clean_line)
            val == parse_currency_value(<<Glyph, " ">> \o m_tot.group1)
            m_pay == count_pattern_search(clean_line)
            num_val == parse_plain_number(m_pay.group1)
        IN  IF m_pay # None /\ num_val # None /\ num_val.kind = "inf"
            THEN OverflowError
            ELSE ScanLines(Tail(lines),
                           IF m_tot # None /\ val # None THEN val ELSE total_coins,
                           IF payout_count = 0 /\ m_pay # None /\ num_val # None
                           THEN int(num_val) ELSE payout_count)

ScanLines(lines, total_coins, payout_count) ==
    IF lines = <<>>
    THEN [kind |-> "scanned", total_coins |-> total_coins,
          payout_count |-> payout_count]
    ELSE
        LET clean_line == Strip(SelectSeq(Head(lines), LAMBDA c : c \notin Markers))
            m_tot == total_pattern_search(clean_line)
            val == parse_currency_value(<<Glyph, " ">> \o m_tot.group1)
            m_pay == count_pattern_search(clean_line)
            num_val == parse_plain_number(m_pay.group1)
        IN  IF m_pay # None /\ num_val # None /\ num_val.kind = "inf"
            THEN OverflowError
            ELSE ScanLines(Tail(lines),
                           IF m_tot # None /\ val # None THEN val ELSE total_coins,
                           IF m_pay # None /\ num_val # None
                           THEN int(num_val) ELSE payout_count)

(***************************************************************************)
(* Messages.  A string with line breaks is the list of its lines ("" is    *)
(* one empty line), so joining with "\n" is concatenation.                 *)
(***************************************************************************)
DANK_MEMER_ID == "270904126974590976"
OtherUser == "another account"

Str(text) == [kind |-> "str", text |-> text]
EmptyText == << <<>> >>

\* x or the empty string
OrEmpty(x) == IF x = None THEN EmptyText ELSE x.text

\* content, then "\n" + title + "\n" + description of the last embed
CombinedContent(msg) ==
    IF msg.embeds # <<>>
    THEN LET last_embed == msg.embeds[Len(msg.embeds)]
         IN  msg.content \o OrEmpty(last_embed.title)
                         \o OrEmpty(last_embed.description)
    ELSE msg.content

\* "amazing job everybody" in content.lower()
HasTrigger(content) ==
    \E k \in 1..Len(content) : Contains(content[k], TriggerPhrase)

IsBlank(line) == RunLen(line, Whitespace) = Len(line)

RECURSIVE DropBlankHead(_)
DropBlankHead(text) ==
    IF text # <<>> /\ IsBlank(Head(text)) THEN DropBlankHead(Tail(text)) ELSE text

RECURSIVE DropBlankTail(_)
DropBlankTail(text) ==
    IF text # <<>> /\ IsBlank(text[Len(text)])
    THEN DropBlankTail(SubSeq(text, 1, Len(text) - 1))
    ELSE text

\* content.strip().splitlines()
StripSplitLines(content) ==
    LET t == DropBlankTail(DropBlankHead(content))
    IN  IF t = <<>> THEN <<>>
        ELSE IF Len(t) = 1 THEN <<Strip(t[1])>>
        ELSE <<LStrip(t[1])>> \o SubSeq(t, 2, Len(t) - 1) \o <<RStrip(t[Len(t)])>>

\* the lines 137-154 of get_recent_heist_messages for one message
ExtractPayout(content) == ScanLines(StripSplitLines(content), None, 0)

\* variant of the detection: the lines are scanned whatever the message says
DetectionOf_NoTrigger(msg) == ExtractPayout(CombinedContent(msg))

\* What both cogs make of a message of Dank Memer: nothing when its combined
\* content lacks the trigger phrase, else the outcome of the line scan
\* (heistsummary.py:123-154; part_000:423-449 is the same code).
DetectionOf(msg) ==
    LET content == CombinedContent(msg)
    IN  IF ~HasTrigger(content) THEN [kind |-> "no_trigger"]
        ELSE ExtractPayout(content)

(***************************************************************************)
(* The guild configuration of the calculator, part_000:141-148: a dict.    *)
(* The key "channel" is str(channel.id) of the one channel of the model.   *)
(***************************************************************************)
EmptyDict == [k \in {} |-> FALSE]

Get(dict, key, default) == IF key \in DOMAIN dict THEN dict[key] ELSE default

Set(dict, key, value) ==
    [k \in DOMAIN dict \cup {key} |-> IF k = key THEN value ELSE dict[k]]

\* get_guild_config: the guild's dict, with "template" defaulted to "text"
get_guild_config(cfg) ==
    IF "template" \in DOMAIN cfg THEN cfg ELSE Set(cfg, "template", "text")

(***************************************************************************)
(* Inputs.                                                                 *)
(***************************************************************************)
\* the inputs of the parsing helpers: every string of at most MaxLen symbols
\* of Alphabet, and the strings the specification names
Alphabet == {"0", "1", ".", ",", "k", "K", "M", "b", " ", "x", Glyph}

RECURSIVE Strings(_, _)
Strings(A, n) ==
    IF n = 0 THEN {<<>>}
    ELSE LET S == Strings(A, n - 1)
         IN  S \cup {Append(s, c) : s \in {t \in S : Len(t) = n - 1}, c \in A}

Examples ==
    { <<Glyph, " ", "1", ".", "5", "M">>,
      <<"g", "a", "r", "b", "a", "g", "e">>,
      <<Glyph, " ", "1", ",", "0", "0", "0">>,
      <<"2", "B", "5">>,
      <<"1", ".", "2", ".", "3">>,
      <<LongNines>>,
      <<"1", ".", "5", LongNines, "k">>,
      <<" ", "2", "m", " ">>,
      <<"2", "K">>,
      <<"2">> }

Inputs == Strings(Alphabet, MaxLen) \cup Examples

\* the lines of payout messages
TriggerLine == <<"Amazing", " ", "job", " ", "everybody", "!">>

TotalLine(token) ==
    <<"we", " ">> \o RackedPhrase \o <<" ", "of", " ", "*", "*", Glyph, " ">>
                  \o token \o <<"*", "*">>

CountLine(token) ==
    <<Backtick>> \o token \o <<" ">> \o UserWord \o PluralS \o GotPhrase
                 \o <<Backtick>>

LinePool ==
    { TriggerLine,
      TotalLine(<<"1", ",", "0", "0", "0">>),
      TotalLine(<<"1", ".", "5", "M">>),
      TotalLine(<<"k", "5">>),
      CountLine(<<"2">>),
      CountLine(<<"0">>),
      CountLine(<<".">>),
      CountLine(<<LongNines>>) }

\* the texts of at most MaxLines lines of LinePool
Texts == Strings(LinePool, MaxLines)

Embed(title, description) == [title |-> title, description |-> description]

PayoutEmbed ==
    Embed(Str(<<TriggerLine>>),
          Str(<<TotalLine(<<"5">>), CountLine(<<"5">>)>>))

\* where a text t stands in a message: its content and its embeds
Placements(t) ==
    { [content |-> t, embeds |-> <<>>],
      [content |-> <<TriggerLine>>, embeds |-> <<Embed(None, Str(t))>>],
      [content |-> EmptyText, embeds |-> <<Embed(Str(<<TriggerLine>>), Str(t))>>],
      [content |-> EmptyText, embeds |-> <<PayoutEmbed, Embed(None, Str(t))>>] }

Message(id, author, placed) ==
    [id |-> id, author |-> author, content |-> placed.content,
     embeds |-> placed.embeds]

\* what is sent to the channel in Spec
Payout(total, count) ==
    [content |-> <<TriggerLine>>,
     embeds |-> <<Embed(None, Str(<<TotalLine(total), CountLine(count)>>))>>]

SentKinds ==
    { [author |-> DANK_MEMER_ID, placed |-> Payout(<<"1", ",", "0", "0", "0">>, <<"2">>)],
      [author |-> DANK_MEMER_ID, placed |-> Payout(<<"5">>, <<"0">>)],
      [author |-> DANK_MEMER_ID,
       placed |-> [content |-> <<TotalLine(<<"5">>), CountLine(<<"5">>)>>,
                   embeds |-> <<>>]],
      [author |-> OtherUser, placed |-> Payout(<<"2", "k">>, <<"1">>)] }

NameLists == {<<>>, <<"No Req heists", "go heists">>}

EnabledConfigs ==
    { Set(Set(EmptyDict, "channel", TRUE), "template", "text"),
      Set(Set(EmptyDict, "global", TRUE), "template", "image") }

(***************************************************************************)
(* get_recent_heist_messages, heistsummary.py:107-163.  messages is the    *)
(* fetched history, newest first.  The result is the list found (before    *)
(* its reversal), or the exception the line scan raised.                   *)
(***************************************************************************)
HISTORY_LIMIT == 100

\* channel.history(limit=100, oldest_first=False)
FetchHistory(hist) ==
    LET n == IF Len(hist) < HISTORY_LIMIT THEN Len(hist) ELSE HISTORY_LIMIT
    IN  [k \in 1..n |-> hist[Len(hist) + 1 - k]]

Reverse(s) == [k \in 1..Len(s) |-> s[Len(s) + 1 - k]]

RECURSIVE ScanMessages(_, _, _)
RECURSIVE ScanMessage(_, _, _, _)

\* variant of the loop: the author of a message is not looked at
ScanMessages_AnyAuthor(messages, found, limit) ==
    IF messages = <<>> THEN [kind |-> "ok", found |-> found]
    ELSE CHOOSE r \in {ScanMessage(scan, messages, found, limit) :
                          scan \in {DetectionOf(Head(messages))}} : TRUE

\* the loop over the fetched messages, newest first; found is the list so far
ScanMessages(messages, found, limit) ==
    IF messages = <<>> THEN [kind |-> "ok", found |-> found]
    ELSE IF Head(messages).author # DANK_MEMER_ID
    THEN ScanMessages(Tail(messages), found, limit)
    ELSE CHOOSE r \in {ScanMessage(scan, messages, found, limit) :
                          scan \in {DetectionOf(Head(messages))}} : TRUE

\* variant of the loop body: total_coins and payout_count are not reset for
\* each message, a message without its own keeps those of the one found before
ScanMessage_CarryOver(scan, messages, found, limit) ==
    IF scan.kind = "no_trigger"
    THEN ScanMessages(Tail(messages), found, limit)
    ELSE IF IsException(scan) THEN scan
    ELSE LET carried == found # <<>>
             total == IF scan.total_coins = None /\ carried
                      THEN found[Len(found)].total_coins ELSE scan.total_coins
             count == IF scan.payout_count = 0 /\ carried
                      THEN found[Len(found)].payout_count ELSE scan.payout_count
             found1 ==
                 IF total # None /\ count > 0
                 THEN Append(found, [id |-> Head(messages).id,
                                     total_coins |-> total,
                                     payout_count |-> count])
                 ELSE found
         IN  IF Len(found1) >= limit THEN [kind |-> "ok", found |-> found1]
             ELSE ScanMessages(Tail(messages), found1, limit)

\* variant of the loop body: a count of zero is accepted
ScanMessage_AcceptsZero(scan, messages, found, limit) ==
    IF scan.kind = "no_trigger"
    THEN ScanMessages(Tail(messages), found, limit)
    ELSE IF IsException(scan) THEN scan
    ELSE LET found1 ==
                 IF scan.total_coins # None /\ scan.payout_count >= 0
                 THEN Append(found, [id |-> Head(messages).id,
                                     total_coins |-> scan.total_coins,
                                     payout_count |-> scan.payout_count])
                 ELSE found
         IN  IF Len(found1) >= limit THEN [kind |-> "ok", found |-> found1]
             ELSE ScanMessages(Tail(messages), found1, limit)

\* one pass of the loop body on Head(messages), whose detection is scan
ScanMessage(scan, messages, found, limit) ==
    IF scan.kind = "no_trigger"
    THEN ScanMessages(Tail(messages), found, limit)
    ELSE IF IsException(scan) THEN scan
    ELSE LET found1 ==
                 IF scan.total_coins # None /\ scan.payout_count > 0
                 THEN Append(found, [id |-> Head(messages).id,
                                     total_coins |-> scan.total_coins,
                                     payout_count |-> scan.payout_count])
                 ELSE found
         IN  IF Len(found1) >= limit THEN [kind |-> "ok", found |-> found1]
             ELSE ScanMessages(Tail(messages), found1, limit)

\* variant of the return: the list is returned as collected, newest first
ReturnFound_NoReverse(r) == r

\* found.reverse(); return found
ReturnFound(r) ==
    IF IsException(r) THEN r ELSE [kind |-> "ok", found |-> Reverse(r.found)]

get_recent_heist_messages(hist, limit) ==
    CHOOSE out \in {ReturnFound(r) :
                       r \in {ScanMessages(FetchHistory(hist), <<>>, limit)}} :
        TRUE

(***************************************************************************)
(* heist_summary, heistsummary.py:193-299.                                 *)
(***************************************************************************)
MIN_HEISTS == 1
MAX_HEISTS == 5

\* the heists_count a user may type: the range of the command and one beyond
HeistCounts == (MIN_HEISTS - 1)..(MAX_HEISTS + 1)

\* while len(name_list) < len(found): name_list.append("Unnamed Heist")
PadNames(name_list, n) ==
    [k \in 1..(IF Len(name_list) < n THEN n ELSE Len(name_list)) |->
        IF k <= Len(name_list) THEN name_list[k] ELSE "Unnamed Heist"]

\* summary_data: (name_list[i], link, payout_count, each_amount); the link
\* is that of the message, given here by its id
SummaryData(found, name_list) ==
    [k \in 1..Len(found) |->
        [name |-> PadNames(name_list, Len(found))[k],
         link |-> found[k].id,
         payout_count |-> found[k].payout_count,
         each_amount |-> TrueDiv(found[k].total_coins, found[k].payout_count)]]

RangeErrorText == "heists_count must be between 1 and 5."
NotFoundText == "No heist payouts found in the last 100 messages."
PostedText == "Heist summary posted successfully!"

\* a message the command sends: the response to the interaction of a slash
\* command (interaction.response.send_message), or a message in the channel
\* (ctx.send, channel.send); the summary is sent as "summary", its text is
\* made from summary_data
Answer(command, what) ==
    [to |-> IF command = "slash" THEN "interaction" ELSE "channel",
     what |-> what]
Post(what) == [to |-> "channel", what |-> what]

\* variant of SummaryReply: an empty list is summarised like any other
SummaryReply_NoEmptyCheck(command, scan, heists_count, name_list, embedded) ==
    IF IsException(scan)
    THEN [kind |-> "raised", command |-> command,
          heists_count |-> heists_count, exception |-> scan,
          scans |-> <<heists_count>>, sent |-> <<>>]
    ELSE [kind |-> "posted", command |-> command,
          heists_count |-> heists_count,
          found |-> scan.found,
          summary_data |-> SummaryData(scan.found, name_list),
          embedded |-> embedded,
          scans |-> <<heists_count>>,
          sent |-> IF command = "slash"
                   THEN <<Answer(command, PostedText), Post("summary")>>
                   ELSE <<Post("summary")>>]

\* what the command answers once the scan has returned scan; scans lists
\* the limit of every call of get_recent_heist_messages, sent the messages
\* the command sent
SummaryReply(command, scan, heists_count, name_list, embedded) ==
    IF IsException(scan)
    THEN [kind |-> "raised", command |-> command,
          heists_count |-> heists_count, exception |-> scan,
          scans |-> <<heists_count>>, sent |-> <<>>]
    ELSE IF scan.found = <<>>
    THEN [kind |-> "not_found", command |-> command,
          heists_count |-> heists_count,
          scans |-> <<heists_count>>,
          sent |-> <<Answer(command, NotFoundText)>>]
    ELSE [kind |-> "posted", command |-> command,
          heists_count |-> heists_count,
          found |-> scan.found,
          summary_data |-> SummaryData(scan.found, name_list),
          embedded |-> embedded,
          scans |-> <<heists_count>>,
          sent |-> IF command = "slash"
                   THEN <<Answer(command, PostedText), Post("summary")>>
                   ELSE <<Post("summary")>>]

\* variant of HeistSummaryOutcome: only the lower end of the range is checked
HeistSummaryOutcome_NoUpperLimit(command, hist, heists_count, name_list, embedded) ==
    IF heists_count < MIN_HEISTS
    THEN [kind |-> "range_error", command |-> command,
          heists_count |-> heists_count,
          scans |-> <<>>, sent |-> <<Answer(command, RangeErrorText)>>]
    ELSE CHOOSE out \in
             {SummaryReply(command, scan, heists_count, name_list, embedded) :
                 scan \in {get_recent_heist_messages(hist, heists_count)}} :
             TRUE

\* what the command answers and posts; command is "slash" or "prefix"
HeistSummaryOutcome(command, hist, heists_count, name_list, embedded) ==
    IF heists_count < MIN_HEISTS \/ heists_count > MAX_HEISTS
    THEN [kind |-> "range_error", command |-> command,
          heists_count |-> heists_count,
          scans |-> <<>>, sent |-> <<Answer(command, RangeErrorText)>>]
    ELSE CHOOSE out \in
             {SummaryReply(command, scan, heists_count, name_list, embedded) :
                 scan \in {get_recent_heist_messages(hist, heists_count)}} :
             TRUE

(***************************************************************************)
(* on_message, part_000:402-477, after the processed_messages check.       *)
(* What the listener does with a message under configuration cfg:          *)
(* "ignored", "raised", or the reply.                                      *)
(***************************************************************************)
\* variant of the listener: only a missing total stops it
ListenerReply_NoZeroCheck(scan, cfg, image_ok) ==
    IF scan.kind = "no_trigger" THEN [kind |-> "ignored"]
    ELSE IF IsException(scan) THEN [kind |-> "raised"]
    ELSE IF scan.total_coins = None THEN [kind |-> "ignored"]
    ELSE [kind |-> "reply",
          form |-> IF Get(cfg, "template", "text") = "image" /\ image_ok
                   THEN "image" ELSE "embed",
          payout_count |-> scan.payout_count,
          each_amount |-> TrueDiv(scan.total_coins, scan.payout_count)]

\* the listener from the scan on: part_000:432-477
ListenerReply(scan, cfg, image_ok) ==
    IF scan.kind = "no_trigger" THEN [kind |-> "ignored"]
    ELSE IF IsException(scan) THEN [kind |-> "raised"]
    ELSE IF scan.total_coins = None \/ scan.payout_count = 0
    THEN [kind |-> "ignored"]
    ELSE [kind |-> "reply",
          form |-> IF Get(cfg, "template", "text") = "image" /\ image_ok
                   THEN "image" ELSE "embed",
          payout_count |-> scan.payout_count,
          each_amount |-> TrueDiv(scan.total_coins, scan.payout_count)]

\* variant of the listener: the toggles of the configuration are not read
ListenerOutcome_NoToggle(message, cfg, image_ok) ==
    IF message.author # DANK_MEMER_ID THEN [kind |-> "ignored"]
    ELSE CHOOSE out \in {ListenerReply(scan, cfg, image_ok) :
                            scan \in {DetectionOf(message)}} : TRUE

\* on_message from the author check on, part_000:412-477
ListenerOutcome(message, cfg, image_ok) ==
    IF message.author # DANK_MEMER_ID THEN [kind |-> "ignored"]
    ELSE IF ~(Get(cfg, "channel", FALSE) \/ Get(cfg, "global", FALSE))
    THEN [kind |-> "ignored"]
    ELSE CHOOSE out \in {ListenerReply(scan, cfg, image_ok) :
                            scan \in {DetectionOf(message)}} : TRUE

(***************************************************************************)
(* Actions.  Every message is sent in a guild channel (on_message returns  *)
(* at once for a direct message).  What the cogs post themselves (replies, *)
(* summaries) and the message of a prefix command are not added to         *)
(* history: their author is not Dank Memer, so both scans skip them, and   *)
(* the channels of the model stay far below the 100 fetched messages.  The *)
(* text of a reply or a summary (format_number, abbreviate_number) is not  *)
(* part of the outcome here; the outcome holds the numbers it is made of.  *)
(***************************************************************************)
\* a message arrives in the channel
Send(author, placed) ==
    /\ Len(history) < MaxHist
    /\ history' = Append(history, Message(Len(history) + 1, author, placed))
    /\ replies' = Append(replies, <<>>)
    /\ delivered' = Append(delivered, 0)
    /\ UNCHANGED <<processed_messages, config_data, raised, summary>>
    /\ UNCHANGED <<pending, answers, config_file>>
    /\ UNCHANGED parseVars
    /\ UNCHANGED spreeVars

\* HeistCalculatorCog.on_message(history[id]), part_000:402-477
OnMessage(id, image_ok) ==
    /\ id \in 1..Len(history)
    /\ IF id \in processed_messages
       THEN UNCHANGED <<processed_messages, config_data, replies, raised>>
       ELSE \E cfg \in {get_guild_config(config_data)} :
            \E outcome \in {ListenerOutcome(history[id], cfg, image_ok)} :
                /\ processed_messages' = processed_messages \cup {id}
                /\ config_data' = IF history[id].author = DANK_MEMER_ID
                                  THEN cfg ELSE config_data
                /\ replies' = IF outcome.kind = "reply"
                              THEN [replies EXCEPT ![id] = Append(@, outcome)]
                              ELSE replies
                /\ raised' = IF outcome.kind = "raised"
                             THEN raised \cup {id} ELSE raised
    /\ UNCHANGED <<history, summary>>
    /\ UNCHANGED listenVars
    /\ UNCHANGED parseVars
    /\ UNCHANGED spreeVars

\* HeistSummaryCog.heist_summary_slash, heistsummary.py:193-248
HeistSummarySlash(heists_count, name_list, embedded) ==
    /\ summary' = HeistSummaryOutcome("slash", history, heists_count,
                                      name_list, embedded)
    /\ UNCHANGED <<history, processed_messages, config_data, replies, raised>>
    /\ UNCHANGED listenVars
    /\ UNCHANGED parseVars
    /\ UNCHANGED spreeVars

\* HeistSummaryCog.heist_summary_prefix, heistsummary.py:254-299
HeistSummaryPrefix(heists_count, name_list) ==
    /\ summary' = HeistSummaryOutcome("prefix", history, heists_count,
                                      name_list, FALSE)
    /\ UNCHANGED <<history, processed_messages, config_data, replies, raised>>
    /\ UNCHANGED listenVars
    /\ UNCHANGED parseVars
    /\ UNCHANGED spreeVars

(***************************************************************************)
(* The listener and the configuration commands as coroutines of one event  *)
(* loop, part_000:234-313 and 402-477.  on_message runs alone up to its    *)
(* first await: generate_heist_image and message.reply(file=...) with the  *)
(* image template, message.reply(embed=...) with the text template.  The   *)
(* awaits of the image path are one wait; when any of them raises, the     *)
(* handler awaits message.reply(embed=...).  A reply that raised was not   *)
(* delivered.  A configuration command changes the dict and saves it       *)
(* before its one await, the answer.  The commands are issued in the       *)
(* channel of the messages ("channel") or in another one ("other").        *)
(***************************************************************************)
MaxPosts == 2        \* most messages in the channel of SpecListen
MaxDeliveries == 2   \* most on_message calls for one message
MaxCommands == 1     \* most configuration commands

CommandChannels == {"channel", "other"}
Templates == {"text", "image", "gif"}

\* variant of the first run: the set processed_messages is not consulted
AlreadyProcessed_Never(id) == FALSE

\* if message.id in self.processed_messages: return, part_000:407-408
AlreadyProcessed(id) == id \in processed_messages

\* on_message from its call to its first await or its return
OnMessageStart(id) ==
    /\ id \in 1..Len(history)
    /\ delivered[id] < MaxDeliveries
    /\ delivered' = [delivered EXCEPT ![id] = @ + 1]
    /\ IF AlreadyProcessed(id)
       THEN UNCHANGED <<processed_messages, config_data, raised, pending>>
       ELSE \E cfg \in {get_guild_config(config_data)} :
            \E outcome \in {ListenerOutcome(history[id], cfg, TRUE)} :
                /\ processed_messages' = processed_messages \cup {id}
                /\ config_data' = IF history[id].author = DANK_MEMER_ID
                                  THEN cfg ELSE config_data
                /\ pending' = IF outcome.kind = "reply"
                              THEN Append(pending, [id |-> id, outcome |-> outcome])
                              ELSE pending
                /\ raised' = IF outcome.kind = "raised"
                             THEN raised \cup {id} ELSE raised
    /\ UNCHANGED <<history, replies, summary, answers, config_file>>
    /\ UNCHANGED parseVars
    /\ UNCHANGED spreeVars

\* s without its k-th element
Without(s, k) == [j \in 1..(Len(s) - 1) |-> IF j < k THEN s[j] ELSE s[j + 1]]

\* the awaits of the image path of the k-th waiting call end: the image was
\* replied (image_ok), or one of them raised and the handler goes on to
\* reply the embed
OnMessageImage(k, image_ok) ==
    /\ k \in 1..Len(pending)
    /\ pending[k].outcome.form = "image"
    /\ IF image_ok
       THEN /\ replies' = [replies EXCEPT ![pending[k].id] =
                                              Append(@, pending[k].outcome)]
            /\ pending' = Without(pending, k)
       ELSE /\ pending' = [pending EXCEPT ![k].outcome.form = "embed"]
            /\ UNCHANGED replies
    /\ UNCHANGED <<history, processed_messages, config_data, raised, summary>>
    /\ UNCHANGED <<delivered, answers, config_file>>
    /\ UNCHANGED parseVars
    /\ UNCHANGED spreeVars

\* await message.reply(embed=embed) of the k-th waiting call ends,
\* part_000:474 and 477
OnMessageEmbed(k) ==
    /\ k \in 1..Len(pending)
    /\ pending[k].outcome.form = "embed"
    /\ replies' = [replies EXCEPT ![pending[k].id] = Append(@, pending[k].outcome)]
    /\ pending' = Without(pending, k)
    /\ UNCHANGED <<history, processed_messages, config_data, raised, summary>>
    /\ UNCHANGED <<delivered, answers, config_file>>
    /\ UNCHANGED parseVars
    /\ UNCHANGED spreeVars

\* what a configuration command answers
Refusal(command, text) ==
    [command |-> command, changed |-> FALSE, text |-> text]

\* "... is now **enabled**" or "**disabled**" for scope: a channel or "global"
NowState(command, scope, enable) ==
    [command |-> command, changed |-> TRUE, scope |-> scope,
     state |-> IF enable THEN "enabled" ELSE "disabled"]

\* a command that changes nothing answers
Refuse(answer) ==
    /\ answers' = Append(answers, answer)
    /\ UNCHANGED <<config_data, config_file>>

\* cfg is written to the guild's entry, save_config(), then the answer
Configure(cfg, answer) ==
    /\ config_data' = cfg
    /\ config_file' = cfg
    /\ answers' = Append(answers, answer)

\* HeistCalculatorCog.heist_calculate_cmd, part_000:234-265
heist_calculate_cmd(admin, where, enable, full_server, template) ==
    /\ Len(answers) < MaxCommands
    /\ IF ~admin
       THEN Refuse(Refusal("heist_calculate", "Admin permissions required."))
       ELSE IF template \notin {"text", "image"}
       THEN Refuse(Refusal("heist_calculate",
                           "Invalid template. Choose 'text' or 'image'."))
       ELSE \E cfg \in {get_guild_config(config_data)} :
            \E scope \in {IF full_server THEN "global" ELSE where} :
                Configure(Set(Set(cfg, scope, enable), "template", template),
                          NowState("heist_calculate", scope, enable))
    /\ UNCHANGED <<history, processed_messages, replies, raised, summary>>
    /\ UNCHANGED <<delivered, pending>>
    /\ UNCHANGED parseVars
    /\ UNCHANGED spreeVars

\* HeistCalculatorCog.heist_cal_toggle, part_000:285-298
heist_cal_toggle(admin, where, enable, template) ==
    /\ Len(answers) < MaxCommands
    /\ IF ~admin
       THEN Refuse(Refusal("toggle", "Admin perms required."))
       ELSE IF template \notin {"text", "image"}
       THEN Refuse(Refusal("toggle", "Template must be 'text' or 'image'."))
       ELSE \E cfg \in {get_guild_config(config_data)} :
                Configure(Set(Set(cfg, where, enable), "template", template),
                          NowState("toggle", where, enable))
    /\ UNCHANGED <<history, processed_messages, replies, raised, summary>>
    /\ UNCHANGED <<delivered, pending>>
    /\ UNCHANGED parseVars
    /\ UNCHANGED spreeVars

\* HeistCalculatorCog.heist_cal_global, part_000:300-308
heist_cal_global(admin, enable) ==
    /\ Len(answers) < MaxCommands
    /\ IF ~admin
       THEN Refuse(Refusal("global", "Admin perms required."))
       ELSE \E cfg \in {get_guild_config(config_data)} :
                Configure(Set(cfg, "global", enable),
                          NowState("global", "global", enable))
    /\ UNCHANGED <<history, processed_messages, replies, raised, summary>>
    /\ UNCHANGED <<delivered, pending>>
    /\ UNCHANGED parseVars
    /\ UNCHANGED spreeVars

\* HeistCalculatorCog.heist_cal_reload, part_000:310-313 and 150-152
heist_cal_reload ==
    /\ Len(answers) < MaxCommands
    /\ config_data' = config_file
    /\ answers' = Append(answers,
                         Refusal("reload",
                                 "Heist Calculator configuration reloaded."))
    /\ UNCHANGED <<history, processed_messages, replies, raised, summary>>
    /\ UNCHANGED <<delivered, pending, config_file>>
    /\ UNCHANGED parseVars
    /\ UNCHANGED spreeVars

CallParseCurrency ==
    /\ call = "none"
    /\ body = <<>>
    /\ call' = "parse_currency_value"
    /\ result' = parse_currency_value(raw)
    /\ UNCHANGED <<raw, body, amount>>
    /\ UNCHANGED botVars
    /\ UNCHANGED spreeVars

CallParsePlain ==
    /\ call = "none"
    /\ body = <<>>
    /\ call' = "parse_plain_number"
    /\ result' = parse_plain_number(raw)
    /\ UNCHANGED <<raw, body, amount>>
    /\ UNCHANGED botVars
    /\ UNCHANGED spreeVars

CallScanLines ==
    /\ call = "none"
    /\ raw = <<>>
    /\ call' = "scan"
    /\ result' = ExtractPayout(body)
    /\ UNCHANGED <<raw, body, amount>>
    /\ UNCHANGED botVars
    /\ UNCHANGED spreeVars

CallFormatNumber(tie) ==
    /\ call = "none"
    /\ amount # None
    /\ call' = "format_number"
    /\ result' = format_number(amount, tie)
    /\ UNCHANGED <<raw, body, amount>>
    /\ UNCHANGED botVars
    /\ UNCHANGED spreeVars

CallAbbreviateNumber(tie) ==
    /\ call = "none"
    /\ amount # None
    /\ call' = "abbreviate_number"
    /\ result' = abbreviate_number(amount, tie)
    /\ UNCHANGED <<raw, body, amount>>
    /\ UNCHANGED botVars
    /\ UNCHANGED spreeVars

\* parse_currency_value applied to the text format_number gives
CallFormatThenParse(tie) ==
    /\ call = "none"
    /\ amount # None
    /\ call' = "format_then_parse"
    /\ result' = parse_currency_value(format_number(amount, tie))
    /\ UNCHANGED <<raw, body, amount>>
    /\ UNCHANGED botVars
    /\ UNCHANGED spreeVars

(***************************************************************************)
(* parse_time_string, heistspree.py:17-34.  A time string is the sequence  *)
(* of its characters.                                                      *)
(***************************************************************************)
SECONDS_PER_MINUTE == 60
SECONDS_PER_HOUR == 3600
SECONDS_PER_DAY == 86400

TimeDigits == {"0", "1", "2", "3", "4", "5", "6", "7", "8", "9"}   \* \d
TimeUnits == {"s", "m", "h", "d", "S", "M", "H", "D"}   \* [smhd], re.IGNORECASE

\* unit.lower() and the seconds of one unit
UnitSeconds(unit) ==
    CASE unit \in {"s", "S"} -> 1
      [] unit \in {"m", "M"} -> SECONDS_PER_MINUTE
      [] unit \in {"h", "H"} -> SECONDS_PER_HOUR
      [] unit \in {"d", "D"} -> SECONDS_PER_DAY

\* pattern.findall(time_str) from index i on, pattern = r'(\d+)([smhd])': the
\* matches from left to right, none overlapping.  A match starts at a digit,
\* takes the whole run of digits (a shorter run would be followed by a
\* digit) and the unit right after it; where there is none the search moves
\* on by one character.
RECURSIVE time_findall(_, _)
time_findall(time_str, i) ==
    IF i > Len(time_str) THEN <<>>
    ELSE LET r == RunLen(Suffix(time_str, i), TimeDigits)
         IN  IF r >= 1 /\ i + r <= Len(time_str) /\ time_str[i + r] \in TimeUnits
             THEN <<[value |-> SubSeq(time_str, i, i + r - 1), unit |-> time_str[i + r]]>>
                      \o time_findall(time_str, i + r + 1)
             ELSE time_findall(time_str, i + 1)

\* the loop over the matches
RECURSIVE TotalSeconds(_)
TotalSeconds(matches) ==
    IF matches = <<>> THEN 0
    ELSE DigitsToInt(Head(matches).value) * UnitSeconds(Head(matches).unit)
             + TotalSeconds(Tail(matches))

\* parse_time_string: the seconds, or the ValueError it raises
parse_time_string(time_str) ==
    LET matches == time_findall(time_str, 1)
    IN  IF matches = <<>> THEN ValueError
        ELSE [kind |-> "int", n |-> TotalSeconds(matches)]

\* the time strings handed to parse_time_string: every string of at most
\* MaxLen characters of TimeAlphabet, and the documented examples
TimeAlphabet == {"0", "1", "3", "h", "M", "s", "d", ".", " "}
TimeExamples ==
    { <<"1", "h", "3", "0", "m">>,
      <<"1", "0", "s">>,
      <<"5", "m">>,
      <<"2", "d">> }
TimeStrings == Strings(TimeAlphabet, MaxLen) \cup TimeExamples

CallParseTimeString ==
    /\ call = "none"
    /\ body = <<>>
    /\ call' = "parse_time_string"
    /\ result' = parse_time_string(raw)
    /\ UNCHANGED <<raw, body, amount>>
    /\ UNCHANGED botVars
    /\ UNCHANGED spreeVars

(***************************************************************************)
(* SpreeCog, heistspree.py:112-304.  The handlers are coroutines of one    *)
(* event loop: a handler runs alone from one await to the next, and while  *)
(* it waits at an await any other handler may run.  An action is one such  *)
(* run.  Awaits that follow each other with no access to the cog's data    *)
(* between them (fetch_message and msg.edit) are one wait.                 *)
(*                                                                         *)
(* Times are seconds.  A channel is its id; the id of the countdown        *)
(* message of a channel is the id of the channel.  A channel exists until *)
(* the loop deletes it.  In SpecSpree every channel is a text channel of   *)
(* the one category.                                                       *)
(***************************************************************************)
EXTEND_SECONDS == 3600
LOOP_SECONDS == 30

MaxChannels == 2     \* most channels created in the guild
MaxPresses == 2      \* most button presses
MaxPeriods == 1      \* the clock shows whole hours plus up to MaxPeriods
MaxHours == 1        \* periods of the loop, up to MaxHours hours

ChannelIds == 1..MaxChannels
Category == "heists"
Instants ==
    {a * LOOP_SECONDS + b * EXTEND_SECONDS : a \in 0..MaxPeriods, b \in 0..MaxHours}
DefaultTimes == {LOOP_SECONDS, EXTEND_SECONDS}

\* SpreeChannelData.__init__
SpreeChannelData(end_time, message_id, base_seconds) ==
    [end_time |-> end_time, message_id |-> message_id,
     base_seconds |-> base_seconds, dismissed |-> FALSE]

\* ephemeral_channels is a dict: the sequence of its items, in insertion order
Keys(items) == {items[k].key : k \in 1..Len(items)}
KeyIndex(items, key) == CHOOSE k \in 1..Len(items) : items[k].key = key

\* dict.get(key)
ItemGet(items, key) ==
    IF key \in Keys(items) THEN items[KeyIndex(items, key)].data ELSE None

\* dict[key] = data
ItemSet(items, key, data) ==
    IF key \in Keys(items)
    THEN [items EXCEPT ![KeyIndex(items, key)].data = data]
    ELSE Append(items, [key |-> key, data |-> data])

\* dict.pop(key, None)
ItemPop(items, key) == SelectSeq(items, LAMBDA item : item.key # key)

\* save_data: what is written to the file
Saved(categories, items) ==
    [ephemeral_categories |-> categories, ephemeral_channels |-> items]

\* bot.get_channel(ch_id) / guild.get_channel(channel_id) finds the channel
get_channel(channels, ch_id) == ch_id \in DOMAIN channels

Sleeping == [pc |-> "sleeping"]
Failed == [pc |-> "failed"]

(***************************************************************************)
(* update_embeds_loop, heistspree.py:165-191.  FirstLoop runs the loop     *)
(* over ephemeral_channels.items() from its item pos on, up to the await   *)
(* of the next countdown to refresh.  The iterator of a dict raises        *)
(* RuntimeError ("dictionary changed size during iteration") when the dict *)
(* has not the size it had when the iteration began; nothing catches it,   *)
(* and tasks.loop ends a task whose coroutine raises.  SecondLoop runs the *)
(* loop over to_delete up to the await of the next channel.delete.  The    *)
(* result is the task, the dict, and the channel whose delete is issued    *)
(* (a sequence of one channel, or of none).                                *)
(***************************************************************************)
RECURSIVE SecondLoop(_, _, _)
SecondLoop(to_delete, items, channels) ==
    IF to_delete = <<>>
    THEN [loop |-> Sleeping, items |-> items, issued |-> <<>>]
    ELSE
        LET ch_id == Head(to_delete)
            popped == ItemPop(items, ch_id)
        IN  IF get_channel(channels, ch_id)
            THEN [loop |-> [pc |-> "delete", channel |-> ch_id,
                            to_delete |-> Tail(to_delete)],
                  items |-> popped, issued |-> <<ch_id>>]
            ELSE SecondLoop(Tail(to_delete), popped, channels)

RECURSIVE FirstLoop(_, _, _, _, _, _)
FirstLoop(tick_now, used, to_delete, pos, items, channels) ==
    IF Len(items) # used
    THEN [loop |-> Failed, items |-> items, issued |-> <<>>]
    ELSE IF pos > Len(items)
    THEN SecondLoop(to_delete, items, channels)
    ELSE
        LET ch_id == items[pos].key
            data == items[pos].data
        IN  IF data.dismissed
            THEN FirstLoop(tick_now, used, to_delete, pos + 1, items, channels)
            ELSE IF data.end_time <= tick_now
            THEN FirstLoop(tick_now, used, Append(to_delete, ch_id), pos + 1,
                           items, channels)
            ELSE IF get_channel(channels, ch_id)
            THEN [loop |-> [pc |-> "refresh", now |-> tick_now, used |-> used,
                            to_delete |-> to_delete, pos |-> pos],
                  items |-> items, issued |-> <<>>]
            ELSE FirstLoop(tick_now, used, to_delete, pos + 1, items, channels)

\* the state after a run of the loop: save_data follows every pop
AfterRun(run) ==
    /\ loop' = run.loop
    /\ ephemeral_channels' = run.items
    /\ spree_data' = IF run.items # ephemeral_channels
                     THEN Saved(ephemeral_categories, run.items)
                     ELSE spree_data
    /\ deleted' = deleted \o [k \in 1..Len(run.issued) |->
                                  [channel |-> run.issued[k], at |-> now]]

\* a tick begins
TickStart ==
    /\ loop.pc = "sleeping"
    /\ \E run \in {FirstLoop(now, Len(ephemeral_channels), <<>>, 1,
                             ephemeral_channels, guild)} : AfterRun(run)
    /\ UNCHANGED <<now, guild, ephemeral_categories, handlers>>
    /\ UNCHANGED parseVars
    /\ UNCHANGED botVars

\* fetch_message / msg.edit of a countdown returned or raised (the exception
\* is logged): the loop goes on with the next item
TickRefreshed ==
    /\ loop.pc = "refresh"
    /\ \E run \in {FirstLoop(loop.now, loop.used, loop.to_delete, loop.pos + 1,
                             ephemeral_channels, guild)} : AfterRun(run)
    /\ UNCHANGED <<now, guild, ephemeral_categories, handlers>>
    /\ UNCHANGED parseVars
    /\ UNCHANGED botVars

\* channel.delete returned: the channel is gone, the loop goes on
TickDeleted ==
    /\ loop.pc = "delete"
    /\ guild' = [id \in DOMAIN guild \ {loop.channel} |-> guild[id]]
    /\ \E run \in {SecondLoop(loop.to_delete, ephemeral_channels, guild')} :
           AfterRun(run)
    /\ UNCHANGED <<now, ephemeral_categories, handlers>>
    /\ UNCHANGED parseVars
    /\ UNCHANGED botVars

(***************************************************************************)
(* on_guild_channel_create, heistspree.py:287-304: up to channel.send      *)
(* (the channel is new, so its id is not in use), and from there on.       *)
(***************************************************************************)
\* variant of the first run: the type of the channel is not looked at
ChannelCreate_AnyType(channel, type, category) ==
    /\ channel \notin DOMAIN guild
    /\ \A k \in 1..Len(handlers) : handlers[k].channel # channel
    /\ guild' = [id \in DOMAIN guild \cup {channel} |->
                    IF id = channel
                    THEN [created_at |-> now,
                          type |-> type,
                          category |-> category,
                          monitored |-> category \in DOMAIN ephemeral_categories,
                          default_seconds |->
                              IF category \in DOMAIN ephemeral_categories
                              THEN ephemeral_categories[category] ELSE 0]
                    ELSE guild[id]]
    /\ handlers' =
           IF category \notin DOMAIN ephemeral_categories THEN handlers
           ELSE LET default_seconds == ephemeral_categories[category]
                IN  Append(handlers,
                           [kind |-> "create", channel |-> channel,
                            pc |-> "send",
                            end_time |-> now + default_seconds,
                            default_seconds |-> default_seconds])
    /\ UNCHANGED <<now, ephemeral_categories, ephemeral_channels, spree_data,
                   loop, deleted>>
    /\ UNCHANGED parseVars
    /\ UNCHANGED botVars

\* a channel of the given type is created in the category; guild records
\* what it is and whether its category was monitored then
ChannelCreate(channel, type, category) ==
    /\ channel \notin DOMAIN guild
    /\ \A k \in 1..Len(handlers) : handlers[k].channel # channel
    /\ guild' = [id \in DOMAIN guild \cup {channel} |->
                    IF id = channel
                    THEN [created_at |-> now,
                          type |-> type,
                          category |-> category,
                          monitored |-> category \in DOMAIN ephemeral_categories,
                          default_seconds |->
                              IF category \in DOMAIN ephemeral_categories
                              THEN ephemeral_categories[category] ELSE 0]
                    ELSE guild[id]]
    /\ handlers' =
           IF type # "text" THEN handlers
           ELSE IF category \notin DOMAIN ephemeral_categories THEN handlers
           ELSE LET default_seconds == ephemeral_categories[category]
                IN  Append(handlers,
                           [kind |-> "create", channel |-> channel,
                            pc |-> "send",
                            end_time |-> now + default_seconds,
                            default_seconds |-> default_seconds])
    /\ UNCHANGED <<now, ephemeral_categories, ephemeral_channels, spree_data,
                   loop, deleted>>
    /\ UNCHANGED parseVars
    /\ UNCHANGED botVars

\* channel.send returned (sent) or raised: the exception is logged
ChannelCreateSent(k, sent) ==
    /\ k \in 1..Len(handlers)
    /\ handlers[k].kind = "create"
    /\ handlers[k].pc = "send"
    /\ IF sent
       THEN /\ ephemeral_channels' =
                   ItemSet(ephemeral_channels, handlers[k].channel,
                           SpreeChannelData(handlers[k].end_time,
                                            handlers[k].channel,
                                            handlers[k].default_seconds))
            /\ spree_data' = Saved(ephemeral_categories, ephemeral_channels')
            /\ handlers' = [handlers EXCEPT ![k].pc = "tracked"]
       ELSE /\ handlers' = [handlers EXCEPT ![k].pc = "failed"]
            /\ UNCHANGED <<ephemeral_channels, spree_data>>
    /\ UNCHANGED <<now, guild, ephemeral_categories, loop, deleted>>
    /\ UNCHANGED parseVars
    /\ UNCHANGED botVars

(***************************************************************************)
(* The category commands, heistspree.py:232-260 (slash) and 309-328        *)
(* (prefix, the same statements): the dicts are changed and saved before   *)
(* the one await, the answer.                                              *)
(***************************************************************************)
Categories == {Category, "general"}
ChannelTypes == {"text", "voice"}
OldChannel == 0      \* the id of the channel that was there before the cog
DelTimes == {<<"3", "0", "s">>, <<"s", "o", "o", "n">>}

\* SpreeCog.spree_categories_add / spree_cat_add_cmd
spree_categories_add(category, del_time) ==
    /\ \E seconds \in {parse_time_string(del_time)} :
           IF seconds = ValueError
           THEN UNCHANGED <<ephemeral_categories, spree_data>>
           ELSE /\ ephemeral_categories' = Set(ephemeral_categories, category, seconds.n)
                /\ spree_data' = Saved(ephemeral_categories', ephemeral_channels)
    /\ UNCHANGED <<now, guild, ephemeral_channels, loop, handlers, deleted>>
    /\ UNCHANGED parseVars
    /\ UNCHANGED botVars

\* SpreeCog.spree_categories_remove / spree_cat_remove_cmd
spree_categories_remove(category) ==
    /\ IF category \in DOMAIN ephemeral_categories
       THEN /\ ephemeral_categories' =
                   [c \in DOMAIN ephemeral_categories \ {category} |->
                       ephemeral_categories[c]]
            /\ spree_data' = Saved(ephemeral_categories', ephemeral_channels)
            /\ UNCHANGED ephemeral_channels
       ELSE UNCHANGED <<ephemeral_categories, ephemeral_channels, spree_data>>
    /\ UNCHANGED <<now, guild, loop, handlers, deleted>>
    /\ UNCHANGED parseVars
    /\ UNCHANGED botVars

(***************************************************************************)
(* ExtendDismissView, heistspree.py:67-107.  A button can be pressed once  *)
(* the countdown message was sent.  A press runs the handler up to its     *)
(* first await: the refusal, or fetch_message / msg.edit.                  *)
(***************************************************************************)
Presses == {k \in 1..Len(handlers) : handlers[k].kind \in {"extend", "dismiss"}}
HasButtons(channel) ==
    \E k \in 1..Len(handlers) :
        /\ handlers[k].kind = "create"
        /\ handlers[k].channel = channel
        /\ handlers[k].pc = "tracked"

\* variant of extend_button: base_seconds is left as it was
extend_button_EndTimeOnly(channel_id) ==
    /\ Cardinality(Presses) < MaxPresses
    /\ HasButtons(channel_id)
    /\ LET data == ItemGet(ephemeral_channels, channel_id)
       IN  IF data = None \/ data.dismissed
           THEN /\ handlers' = Append(handlers, [kind |-> "extend",
                                                 channel |-> channel_id,
                                                 pc |-> "refused"])
                /\ UNCHANGED ephemeral_channels
           ELSE /\ ephemeral_channels' =
                       ItemSet(ephemeral_channels, channel_id,
                               [data EXCEPT !.end_time = @ + EXTEND_SECONDS])
                /\ handlers' = Append(handlers, [kind |-> "extend",
                                                 channel |-> channel_id,
                                                 pc |-> "edit"])
    /\ UNCHANGED <<now, guild, ephemeral_categories, spree_data, loop, deleted>>
    /\ UNCHANGED parseVars
    /\ UNCHANGED botVars

extend_button(channel_id) ==
    /\ Cardinality(Presses) < MaxPresses
    /\ HasButtons(channel_id)
    /\ LET data == ItemGet(ephemeral_channels, channel_id)
       IN  IF data = None \/ data.dismissed
           THEN /\ handlers' = Append(handlers, [kind |-> "extend",
                                                 channel |-> channel_id,
                                                 pc |-> "refused"])
                /\ UNCHANGED ephemeral_channels
           ELSE /\ ephemeral_channels' =
                       ItemSet(ephemeral_channels, channel_id,
                               [data EXCEPT
                                   !.end_time = @ + EXTEND_SECONDS,
                                   !.base_seconds = @ + EXTEND_SECONDS])
                /\ handlers' = Append(handlers, [kind |-> "extend",
                                                 channel |-> channel_id,
                                                 pc |-> "edit"])
    /\ UNCHANGED <<now, guild, ephemeral_categories, spree_data, loop, deleted>>
    /\ UNCHANGED parseVars
    /\ UNCHANGED botVars

\* variant of dismiss_button: only a missing entry is refused
dismiss_button_DismissedAccepted(channel_id) ==
    /\ Cardinality(Presses) < MaxPresses
    /\ HasButtons(channel_id)
    /\ LET data == ItemGet(ephemeral_channels, channel_id)
       IN  IF data = None
           THEN /\ handlers' = Append(handlers, [kind |-> "dismiss",
                                                 channel |-> channel_id,
                                                 pc |-> "refused"])
                /\ UNCHANGED ephemeral_channels
           ELSE /\ ephemeral_channels' =
                       ItemSet(ephemeral_channels, channel_id,
                               [data EXCEPT !.dismissed = TRUE])
                /\ handlers' = Append(handlers, [kind |-> "dismiss",
                                                 channel |-> channel_id,
                                                 pc |-> "edit"])
    /\ UNCHANGED <<now, guild, ephemeral_categories, spree_data, loop, deleted>>
    /\ UNCHANGED parseVars
    /\ UNCHANGED botVars

\* ExtendDismissView.dismiss_button, heistspree.py:93-107, up to its first await
dismiss_button(channel_id) ==
    /\ Cardinality(Presses) < MaxPresses
    /\ HasButtons(channel_id)
    /\ LET data == ItemGet(ephemeral_channels, channel_id)
       IN  IF data = None \/ data.dismissed
           THEN /\ handlers' = Append(handlers, [kind |-> "dismiss",
                                                 channel |-> channel_id,
                                                 pc |-> "refused"])
                /\ UNCHANGED ephemeral_channels
           ELSE /\ ephemeral_channels' =
                       ItemSet(ephemeral_channels, channel_id,
                               [data EXCEPT !.dismissed = TRUE])
                /\ handlers' = Append(handlers, [kind |-> "dismiss",
                                                 channel |-> channel_id,
                                                 pc |-> "edit"])
    /\ UNCHANGED <<now, guild, ephemeral_categories, spree_data, loop, deleted>>
    /\ UNCHANGED parseVars
    /\ UNCHANGED botVars

\* the rest of a button handler, after fetch_message / msg.edit returned or
\* raised: interaction.response.send_message("... Extended ..." or
\* "... dismissed ...") and save_data
Acknowledge(k) ==
    /\ k \in Presses
    /\ handlers[k].pc = "edit"
    /\ handlers' = [handlers EXCEPT ![k].pc = "acknowledged"]
    /\ spree_data' = Saved(ephemeral_categories, ephemeral_channels)
    /\ UNCHANGED <<now, guild, ephemeral_categories, ephemeral_channels, loop,
                   deleted>>
    /\ UNCHANGED parseVars
    /\ UNCHANGED botVars

\* time passes
Advance(instant) ==
    /\ instant > now
    /\ now' = instant
    /\ UNCHANGED <<guild, ephemeral_categories, ephemeral_channels, spree_data,
                   loop, handlers, deleted>>
    /\ UNCHANGED parseVars
    /\ UNCHANGED botVars

(***************************************************************************)
(* Specifications.                                                         *)
(***************************************************************************)
NoSummary == [kind |-> "none"]

IdleParse ==
    /\ raw = <<>>
    /\ body = <<>>
    /\ call = "none"
    /\ result = None
    /\ amount = None

IdleSpree ==
    /\ now = 0
    /\ guild = EmptyDict
    /\ ephemeral_categories = EmptyDict
    /\ ephemeral_channels = <<>>
    /\ spree_data = None
    /\ loop = Sleeping
    /\ handlers = <<>>
    /\ deleted = <<>>

IdleBot ==
    /\ history = <<>>
    /\ processed_messages = {}
    /\ config_data = EmptyDict
    /\ replies = <<>>
    /\ raised = {}
    /\ summary = NoSummary
    /\ delivered = <<>>
    /\ pending = <<>>
    /\ answers = <<>>
    /\ config_file = EmptyDict

\* Spec: messages arrive in a channel and heist_summary commands scan it
Init == IdleParse /\ IdleBot /\ IdleSpree

Next ==
    \/ \E sent \in SentKinds : Send(sent.author, sent.placed)
    \/ \E hc \in HeistCounts, names \in NameLists, emb \in BOOLEAN :
           HeistSummarySlash(hc, names, emb)
    \/ \E hc \in HeistCounts, names \in NameLists :
           HeistSummaryPrefix(hc, names)

Spec == Init /\ [][Next]_vars

\* SpecDetect: one message of any text, handled by the listener of a guild
\* where the calculator is enabled, and scanned by heist_summary
InitDetect ==
    /\ IdleParse
    /\ IdleSpree
    /\ \E txt \in Texts : \E pl \in Placements(txt) :
           history = <<Message(1, DANK_MEMER_ID, pl)>>
    /\ processed_messages = {}
    /\ config_data \in EnabledConfigs
    /\ config_file = config_data
    /\ replies = << <<>> >>
    /\ raised = {}
    /\ summary = NoSummary
    /\ delivered = <<0>>
    /\ pending = <<>>
    /\ answers = <<>>

NextDetect ==
    \/ \E img \in BOOLEAN : OnMessage(1, img)
    \/ HeistSummarySlash(MIN_HEISTS, <<>>, FALSE)
    \/ HeistSummaryPrefix(MAX_HEISTS, <<>>)

SpecDetect == InitDetect /\ [][NextDetect]_vars

\* what is sent to the channel in SpecListen
ListenKinds ==
    { [author |-> DANK_MEMER_ID, placed |-> Payout(<<"1", ",", "0", "0", "0">>, <<"2">>)],
      [author |-> OtherUser, placed |-> Payout(<<"2", "k">>, <<"1">>)] }

\* SpecListen: messages arrive, the listener handles their deliveries while
\* administrators and others issue configuration commands, and heist_summary
\* scans the channel.  The cog starts with the configuration it loaded.
InitListen ==
    /\ IdleParse
    /\ IdleSpree
    /\ history = <<>>
    /\ processed_messages = {}
    /\ config_file \in {EmptyDict} \cup EnabledConfigs
    /\ config_data = config_file
    /\ replies = <<>>
    /\ raised = {}
    /\ summary = NoSummary
    /\ delivered = <<>>
    /\ pending = <<>>
    /\ answers = <<>>

NextListen ==
    \/ \E sent \in ListenKinds :
           Len(history) < MaxPosts /\ Send(sent.author, sent.placed)
    \/ \E id \in 1..MaxPosts : OnMessageStart(id)
    \/ \E k \in 1..MaxPosts, img \in BOOLEAN : OnMessageImage(k, img)
    \/ \E k \in 1..MaxPosts : OnMessageEmbed(k)
    \/ \E admin \in BOOLEAN, where \in CommandChannels, enable \in BOOLEAN,
          full \in BOOLEAN, template \in Templates :
           heist_calculate_cmd(admin, where, enable, full, template)
    \/ \E admin \in BOOLEAN, where \in CommandChannels, enable \in BOOLEAN,
          template \in Templates :
           heist_cal_toggle(admin, where, enable, template)
    \/ \E admin \in BOOLEAN, enable \in BOOLEAN : heist_cal_global(admin, enable)
    \/ heist_cal_reload
    \/ HeistSummarySlash(MIN_HEISTS, <<>>, FALSE)

SpecListen == InitListen /\ [][NextListen]_vars

\* the texts of one count line, its token a short string of digits and points
CountTokens == Strings({"0", "2", "5", "."}, MaxLen - 1)
CountTexts == {<<CountLine(tok)>> : tok \in CountTokens \ {<<>>}}

\* SpecParse: a parsing helper is applied to an input
InitParse ==
    /\ \/ raw \in Inputs /\ body = <<>>
       \/ raw = <<>> /\ body \in Texts \cup CountTexts
    /\ call = "none"
    /\ result = None
    /\ amount = None
    /\ IdleBot
    /\ IdleSpree

NextParse == CallParseCurrency \/ CallParsePlain \/ CallScanLines

SpecParse == InitParse /\ [][NextParse]_vars

\* the magnitudes below a thousand that are a whole number of hundredths
Hundredths == {Float(k, 100, 0) : k \in 0..(100 * THOUSAND - 1)}

\* magnitudes of every scale, with third decimals and halfway cases
Amounts ==
    {Float(n, 1, 0) : n \in {1000, 1005, 1125, 1234, 1375, 1500, 999995,
                             999999, 1234567}}
        \cup {Float(n, 1, 0 - 1) : n \in {15005}}
        \cup {Float(n, 1, 0 - 3) : n \in {5, 125, 2675, 999995, 999999,
                                          999999999}}
        \cup {Float(n, 1, 6) : n \in {1, 15}}
        \cup {Float(n, 1, 9) : n \in {1, 2}}
        \cup {Float(1000, 3, 0), Inf}

\* SpecFormat: a formatting helper is applied to a magnitude
InitFormat ==
    /\ raw = <<>>
    /\ body = <<>>
    /\ call = "none"
    /\ result = None
    /\ amount \in Hundredths \cup Amounts
    /\ IdleBot
    /\ IdleSpree

NextFormat ==
    \/ \E tie \in TieFalls : CallFormatNumber(tie)
    \/ \E tie \in TieFalls : CallAbbreviateNumber(tie)
    \/ \E tie \in TieFalls : CallFormatThenParse(tie)

SpecFormat == InitFormat /\ [][NextFormat]_vars

\* SpecTime: parse_time_string is applied to a time string
InitTime ==
    /\ raw \in TimeStrings
    /\ body = <<>>
    /\ call = "none"
    /\ result = None
    /\ amount = None
    /\ IdleBot
    /\ IdleSpree

NextTime == CallParseTimeString

SpecTime == InitTime /\ [][NextTime]_vars

\* SpecSpree: channels are created in a monitored category, their buttons
\* are pressed, time passes and the loop ticks
InitSpree ==
    /\ IdleParse
    /\ IdleBot
    /\ now = 0
    /\ guild = EmptyDict
    /\ \E seconds \in DefaultTimes :
           /\ ephemeral_categories = Set(EmptyDict, Category, seconds)
           /\ spree_data = Saved(ephemeral_categories, <<>>)
    /\ ephemeral_channels = <<>>
    /\ loop = Sleeping
    /\ handlers = <<>>
    /\ deleted = <<>>

NextSpree ==
    \/ TickStart
    \/ TickRefreshed
    \/ TickDeleted
    \/ \E channel \in ChannelIds : ChannelCreate(channel, "text", Category)
    \/ \E k \in 1..(MaxChannels + MaxPresses), sent \in BOOLEAN :
           ChannelCreateSent(k, sent)
    \/ \E channel \in ChannelIds : extend_button(channel)
    \/ \E channel \in ChannelIds : dismiss_button(channel)
    \/ \E k \in 1..(MaxChannels + MaxPresses) : Acknowledge(k)
    \/ \E instant \in Instants : Advance(instant)

SpecSpree == InitSpree /\ [][NextSpree]_vars

\* SpecCategories: a guild with one old text channel and no data file;
\* categories are added to and removed from monitoring, channels of either
\* type are created in either category, time passes and the loop ticks
InitCategories ==
    /\ IdleParse
    /\ IdleBot
    /\ now = 0
    /\ guild = [id \in {OldChannel} |->
                   [created_at |-> 0, type |-> "text", category |-> Category,
                    monitored |-> FALSE, default_seconds |-> 0]]
    /\ ephemeral_categories = EmptyDict
    /\ ephemeral_channels = <<>>
    /\ spree_data = None
    /\ loop = Sleeping
    /\ handlers = <<>>
    /\ deleted = <<>>

NextCategories ==
    \/ \E category \in Categories, del_time \in DelTimes :
           spree_categories_add(category, del_time)
    \/ \E category \in Categories : spree_categories_remove(category)
    \/ \E channel \in ChannelIds, type \in ChannelTypes, category \in Categories :
           ChannelCreate(channel, type, category)
    \/ \E k \in 1..MaxChannels, sent \in BOOLEAN : ChannelCreateSent(k, sent)
    \/ TickStart
    \/ TickRefreshed
    \/ TickDeleted
    \/ \E instant \in Instants : Advance(instant)

SpecCategories == InitCategories /\ [][NextCategories]_vars

\* the event loop runs a task that can run: a tick begins when the loop
\* sleeps, and every await of the loop and of a handler returns
SpecSpreeFair ==
    /\ SpecSpree
    /\ WF_vars(TickStart)
    /\ WF_vars(TickRefreshed)
    /\ WF_vars(TickDeleted)

(***************************************************************************)
(* Properties.  What they are stated with is written from the statements   *)
(* and from the building blocks of the model (the regular expressions,     *)
(* float, the combined content), not from the handlers they are about.     *)
(***************************************************************************)
Max(S) == CHOOSE x \in S : \A y \in S : x >= y

\* the line scan of message i of the channel, and whether it says the phrase
ScanOf(i) == ExtractPayout(CombinedContent(history[i]))
Triggered(i) == HasTrigger(CombinedContent(history[i]))

\* message i is in the list the posted summary was built from
InSummary(i) ==
    /\ summary.kind = "posted"
    /\ \E k \in 1..Len(summary.found) : summary.found[k].id = i

\* the qualifying payout messages among the fetched ones of hist
QualifyingIds(hist) ==
    {i \in 1..Len(hist) :
        /\ i > Len(hist) - HISTORY_LIMIT
        /\ hist[i].author = DANK_MEMER_ID
        /\ HasTrigger(CombinedContent(hist[i]))
        /\ LET d == ExtractPayout(CombinedContent(hist[i]))
           IN  d.kind = "scanned" /\ d.total_coins # None /\ d.payout_count > 0}

\* the n most recent of the messages S
MostRecent(S, n) == {i \in S : Cardinality({j \in S : j > i}) < n}

FoundOf(s) == IF s.kind = "posted" THEN s.found ELSE <<>>

BatchResult(hist, limit, found) ==
    LET Q == QualifyingIds(hist)
    IN  /\ Len(found) = Min({limit, Cardinality(Q)})
        /\ {found[k].id : k \in 1..Len(found)} = MostRecent(Q, limit)
        /\ \A k \in 1..(Len(found) - 1) : found[k].id < found[k + 1].id
        /\ \A k \in 1..Len(found) :
               LET d == ExtractPayout(CombinedContent(hist[found[k].id]))
               IN  /\ found[k].total_coins = d.total_coins
                   /\ found[k].payout_count = d.payout_count

\* C1: a heist_summary command that scans the channel (heists_count in 1..5)
\* gets from get_recent_heist_messages exactly the min(limit, q) most recent
\* qualifying payout messages of the fetched history, oldest first.
C1_BatchScan ==
    [][(history' = history /\ summary'.kind \in {"posted", "not_found"})
          => BatchResult(history, summary'.heists_count, FoundOf(summary'))]_vars

\* three messages qualify, the limit is 2: the two most recent, older first
C1_Witness ==
    /\ Cardinality(QualifyingIds(history)) = 3
    /\ summary.kind = "posted"
    /\ summary.heists_count = 2
    /\ Len(summary.found) = 2
    /\ summary.found[1].id = 2
    /\ summary.found[2].id = 3

\* C2: a message whose combined text does not say "amazing job everybody"
\* is never in the list of the batch scan and is never replied to by the
\* listener, whatever lines it holds.
C2_NoTriggerNoDetection ==
    \A i \in 1..Len(history) :
        ~Triggered(i) => replies[i] = <<>> /\ ~InSummary(i) /\ i \notin raised

\* a message with a total line and a count line but no phrase, after the
\* listener and the command have handled it
C2_Witness ==
    /\ 1 \in processed_messages
    /\ summary.kind = "not_found"
    /\ ~Triggered(1)
    /\ ScanOf(1).kind = "scanned"
    /\ ScanOf(1).total_coins # None
    /\ ScanOf(1).payout_count > 0

\* C3: a message that says the phrase and whose lines give no total, or no
\* count or the count 0, is not detected and not replied to, and nothing is
\* raised for it: total / count is not attempted with count = 0.
\* (Stated by contraposition: a message that is replied to, listed, or
\* raised for is not one whose scan ended without payout data.)
C3_NoPayoutData ==
    \A i \in 1..Len(history) :
        (\/ replies[i] # <<>>
         \/ InSummary(i)
         \/ i \in raised
         \/ summary.kind = "raised")
        => ~(/\ Triggered(i)
             /\ LET d == ScanOf(i)
                IN  /\ d.kind = "scanned"
                    /\ (d.total_coins = None \/ d.payout_count = 0))

\* a total and the count 0, after the listener and the command
C3_Witness ==
    /\ 1 \in processed_messages
    /\ summary.kind = "not_found"
    /\ Triggered(1)
    /\ ScanOf(1).kind = "scanned"
    /\ ScanOf(1).total_coins # None
    /\ ScanOf(1).payout_count = 0

\* each is total / count: each * count = total
IsShare(each, total, count) ==
    IF total.kind = "inf" THEN each = Inf
    ELSE each.kind = "float" /\ Float(each.n * count, each.d, each.e) = total

ExampleText ==
    <<TriggerLine, TotalLine(<<"1", ",", "0", "0", "0">>), CountLine(<<"2">>)>>

\* C4: the share in every reply of the listener and in every entry of a
\* posted summary is total / count of that same message; the text "Amazing
\* job everybody", "racked up a total of 1,000", "2 users got the payout"
\* gives total 1000, count 2, share 500.
C4_ShareIsTotalOverCount ==
    /\ \A i \in 1..Len(history) : \A k \in 1..Len(replies[i]) :
           LET d == ScanOf(i)
           IN  /\ replies[i][k].payout_count = d.payout_count
               /\ IsShare(replies[i][k].each_amount, d.total_coins,
                          d.payout_count)
    /\ summary.kind = "posted" =>
           \A k \in 1..Len(summary.found) :
               LET d == ScanOf(summary.found[k].id)
               IN  /\ summary.summary_data[k].link = summary.found[k].id
                   /\ summary.summary_data[k].payout_count = d.payout_count
                   /\ IsShare(summary.summary_data[k].each_amount,
                              d.total_coins, d.payout_count)
    /\ (/\ Len(history) >= 1
        /\ history[1].content = ExampleText
        /\ history[1].embeds = <<>>) =>
           /\ ScanOf(1).total_coins = Float(1000, 1, 0)
           /\ ScanOf(1).payout_count = 2
           /\ \A k \in 1..Len(replies[1]) :
                  replies[1][k].each_amount = Float(500, 1, 0)
           /\ summary.kind = "posted" =>
                  summary.summary_data[1].each_amount = Float(500, 1, 0)

\* the example, replied to and summarised
C4_Witness ==
    /\ history[1].content = ExampleText
    /\ history[1].embeds = <<>>
    /\ Len(replies[1]) = 1
    /\ replies[1][1].each_amount = Float(500, 1, 0)
    /\ summary.kind = "posted"
    /\ summary.summary_data[1].each_amount = Float(500, 1, 0)

NonNegative(v) == v.kind = "inf" \/ (v.kind = "float" /\ v.n >= 0 /\ v.d > 0)

\* C5: every detection in the list of the batch scan, and every detection
\* the listener replies to, has a count >= 1 and a total >= 0.
C5_CountAndTotalRange ==
    /\ summary.kind = "posted" =>
           \A k \in 1..Len(summary.found) :
               /\ summary.found[k].payout_count >= 1
               /\ NonNegative(summary.found[k].total_coins)
    /\ \A i \in 1..Len(history) : \A k \in 1..Len(replies[i]) :
           LET d == ScanOf(i)
           IN  /\ replies[i][k].payout_count >= 1
               /\ d.payout_count >= 1
               /\ NonNegative(d.total_coins)

\* a detection of 1.5M for 2, replied to and summarised
C5_Witness ==
    /\ summary.kind = "posted"
    /\ summary.found[1].total_coins = Float(1500000, 1, 0)
    /\ summary.found[1].payout_count = 2
    /\ replies[1] # <<>>

\* the lines of a text as the scan sees them: markers removed, stripped
CleanLines(content) ==
    LET lines == StripSplitLines(content)
    IN  [k \in 1..Len(lines) |->
            Strip(SelectSeq(lines[k], LAMBDA c : c \notin Markers))]

\* the lines that match the total pattern, and what their token parses to
TotalMatches(content) ==
    {k \in 1..Len(CleanLines(content)) :
        total_pattern_search(CleanLines(content)[k]) # None}

TotalValue(content, k) ==
    parse_currency_value(
        <<Glyph, " ">> \o total_pattern_search(CleanLines(content)[k]).group1)

TotalParsed(content) ==
    {k \in TotalMatches(content) : TotalValue(content, k) # None}

\* C6, as stated: the total of a message is the one of the last line that
\* matches the total pattern.
C6_LastMatchingTotal ==
    (call = "scan" /\ result.kind = "scanned" /\ TotalMatches(body) # {})
        => result.total_coins = TotalValue(body, Max(TotalMatches(body)))

\* C6, amended: the total of a message is the one of the last line that
\* matches the total pattern and whose token parses to a value; a matching
\* line whose token does not parse leaves the total as it was.
C6_LastParsedTotal ==
    (call = "scan" /\ result.kind = "scanned")
        => result.total_coins =
               IF TotalParsed(body) = {} THEN None
               ELSE TotalValue(body, Max(TotalParsed(body)))

\* two lines with different totals: the later one is the result
C6_Witness ==
    /\ call = "scan"
    /\ result.kind = "scanned"
    /\ Cardinality(TotalParsed(body)) >= 2
    /\ TotalValue(body, Min(TotalParsed(body)))
           # TotalValue(body, Max(TotalParsed(body)))
    /\ result.total_coins = TotalValue(body, Max(TotalParsed(body)))

\* the lines that match the count pattern, and what their token parses to
CountMatches(content) ==
    {k \in 1..Len(CleanLines(content)) :
        count_pattern_search(CleanLines(content)[k]) # None}

CountValue(content, k) ==
    parse_plain_number(count_pattern_search(CleanLines(content)[k]).group1)

CountParsed(content) ==
    {k \in CountMatches(content) : CountValue(content, k) # None}

\* C7, as stated: the count of a message is the one of the last line that
\* matches the count pattern.
C7_LastMatchingCount ==
    (call = "scan" /\ result.kind = "scanned" /\ CountMatches(body) # {})
        => /\ CountValue(body, Max(CountMatches(body))) # None
           /\ result.payout_count
                  = int(CountValue(body, Max(CountMatches(body))))

\* C7, amended: the scan raises OverflowError exactly when the token of a
\* matching line is beyond the double range; otherwise the count of the
\* message is the one of the last line that matches the count pattern and
\* whose token parses to a number (0 when there is none), so that a later
\* line with the count 0 leaves the message without payout data.
C7_LastParsedCount ==
    call = "scan" =>
        IF \E k \in CountParsed(body) : CountValue(body, k).kind = "inf"
        THEN result = OverflowError
        ELSE /\ result.kind = "scanned"
             /\ result.payout_count =
                    IF CountParsed(body) = {} THEN 0
                    ELSE int(CountValue(body, Max(CountParsed(body))))

\* a line with the count 2, then a line with the count 0
C7_Witness ==
    /\ call = "scan"
    /\ result.kind = "scanned"
    /\ Cardinality(CountParsed(body)) >= 2
    /\ int(CountValue(body, Min(CountParsed(body)))) = 2
    /\ int(CountValue(body, Max(CountParsed(body)))) = 0
    /\ result.payout_count = 0

\* C8, as stated: parse_currency_value, parse_plain_number and the line
\* scan of a message end with a value or with None, and never raise.
C8_NeverRaises == call # "none" => ~IsException(result)

\* s with the glyph and the commas removed, stripped
Cleaned(s) == Strip(Remove(Remove(s, Glyph), ","))

\* the leading run of digits and dots of t, and the scale of the symbol
\* that follows it, as a power of ten
LeadingRun(t) == SubSeq(t, 1, RunLen(t, NumChars))

ScaleOf(t) ==
    LET k == RunLen(t, NumChars)
        c == IF k < Len(t) THEN t[k + 1] ELSE ""
    IN  CASE c \in {"k", "K"} -> 3
          [] c \in {"m", "M"} -> 6
          [] c \in {"b", "B"} -> 9
          [] OTHER -> 0

\* r is v * 10^k
IsScaled(r, v, k) ==
    IF v.kind = "inf" THEN r = Inf
    ELSE IF v.n = 0 THEN r = v
    ELSE r.kind = "float" /\ r.n = v.n /\ r.d = v.d /\ r.e = v.e + k

\* C9: the value of parse_currency_value is the leading numeral times 1,000
\* for K, 1,000,000 for M, 1,000,000,000 for B, in either case, and times 1
\* without a suffix; "(glyph) 1.5M" gives 1,500,000 and "garbage" None.
C9_SuffixScaling ==
    call = "parse_currency_value" =>
        /\ result # None =>
               /\ IsFloat(float(LeadingRun(Cleaned(raw))))
               /\ IsScaled(result, float(LeadingRun(Cleaned(raw))),
                           ScaleOf(Cleaned(raw)))
        /\ raw = <<Glyph, " ", "1", ".", "5", "M">> =>
               result = Float(1500000, 1, 0)
        /\ raw = <<"g", "a", "r", "b", "a", "g", "e">> => result = None

\* a numeral with a lower-case suffix, scaled
C9_Witness ==
    /\ call = "parse_currency_value"
    /\ raw = <<" ", "2", "m", " ">>
    /\ result = Float(2000000, 1, 0)

\* p is a numeric literal: digits, at least one, with at most one point
IsLiteral(p) ==
    /\ p # <<>>
    /\ \A j \in 1..Len(p) : p[j] \in NumChars
    /\ Count(p, ".") <= 1
    /\ Len(p) > Count(p, ".")

StartsWithLiteral(t) == \E n \in 1..Len(t) : IsLiteral(SubSeq(t, 1, n))

\* C10, as stated: parse_currency_value returns a value exactly when the
\* cleaned string starts with a numeric literal of digits with at most one
\* decimal point.
C10_ValueIffLeadingLiteral ==
    call = "parse_currency_value" =>
        (result # None <=> StartsWithLiteral(Cleaned(raw)))

\* C10, amended: parse_currency_value returns a value exactly when the
\* longest leading run of digits and points of the cleaned string is a
\* numeric literal (at least one digit, at most one point); the value is
\* then that of the run, scaled by the suffix next to it, whatever follows.
C10_ValueIffLeadingRunIsLiteral ==
    call = "parse_currency_value" =>
        /\ result # None <=> IsLiteral(LeadingRun(Cleaned(raw)))
        /\ result # None => \A rest \in {<<>>, <<"x">>, <<" ", "1", "k">>} :
               LET t == Cleaned(raw)
                   n == RunLen(t, NumChars)
                   used == SubSeq(t, 1, IF ScaleOf(t) > 0 THEN n + 1 ELSE n)
               IN  parse_currency_value(used \o <<" ">> \o rest) = result

\* a literal followed by more: the value of the literal
C10_Witness ==
    /\ call = "parse_currency_value"
    /\ raw = <<"2", "B", "5">>
    /\ result = Float(2000000000, 1, 0)

\* s with the commas removed, stripped
PlainCleaned(s) == Strip(Remove(s, ","))

\* c is v truncated toward zero: c <= v < c + 1, for v = (n / d) * 10^e
IsTruncation(c, v) ==
    IF v.e >= 0
    THEN c * v.d <= v.n * Pow10(v.e) /\ v.n * Pow10(v.e) < (c + 1) * v.d
    ELSE c * v.d * Pow10(0 - v.e) <= v.n /\ v.n < (c + 1) * v.d * Pow10(0 - v.e)

\* the token of a text of one count line
TokenOf(content) == SubSeq(content[1], 2, Len(content[1]) - 10)

\* C11, as stated: parse_plain_number returns a value exactly when its
\* input, commas removed, starts with a numeral, and never scales it.
C11_PlainIffLeadingNumeral ==
    call = "parse_plain_number" =>
        (result # None <=> StartsWithLiteral(PlainCleaned(raw)))

\* C11, amended: parse_plain_number returns the value of the longest
\* leading run of digits and points of its input (commas removed, stripped)
\* when that run is a numeral (at least one digit, at most one point), with
\* no scale applied ("2K" gives 2), and None otherwise; the line scan
\* truncates a finite value toward zero to get the count ("2" gives 2).
C11_PlainNumber ==
    /\ call = "parse_plain_number" =>
           /\ result = IF IsLiteral(LeadingRun(PlainCleaned(raw)))
                       THEN float(LeadingRun(PlainCleaned(raw)))
                       ELSE None
           /\ raw = <<"2", "K">> => result = Float(2, 1, 0)
           /\ raw = <<"2">> => result = Float(2, 1, 0)
    /\ (call = "scan" /\ body \in CountTexts /\ IsLiteral(TokenOf(body))) =>
           /\ result.kind = "scanned"
           /\ IsTruncation(result.payout_count, float(TokenOf(body)))
           /\ TokenOf(body) = <<"2">> => result.payout_count = 2

\* "2K" gives 2
C11_Witness ==
    /\ call = "parse_plain_number"
    /\ raw = <<"2", "K">>
    /\ result = Float(2, 1, 0)

(***************************************************************************)
(* Formatting (SpecFormat).                                                *)
(***************************************************************************)
IsFinite(v) == v.kind = "float"
Chars(s) == {s[i] : i \in 1..Len(s)}
IntPart(s) == SubSeq(s, 1, IndexOf(s, ".") - 1)
FracPart(s) == SubSeq(s, IndexOf(s, ".") + 1, Len(s))

\* the text is digits, with a comma before every group of three digits
\* counted from the right and nowhere else
IsGrouped(s) ==
    /\ s # <<>>
    /\ s[1] # ","
    /\ \A i \in 1..Len(s) :
           IF (Len(s) - i + 1) % 4 = 0 THEN s[i] = ","
           ELSE s[i] \in DigitChars \ {LongNines}

\* v * 1000 * d, for a v of at most three decimals whose denominator divides d
Milli(v, d) == (v.n * (d \div v.d)) * Pow10(v.e + 3)

\* |a - b| <= 0.005: b is a rounded to hundredths
WithinHalfCent(a, b) ==
    \/ a = b
    \/ /\ Milli(a, a.d) - Milli(b, a.d) <= 5 * a.d
       /\ Milli(b, a.d) - Milli(a, a.d) <= 5 * a.d

IsHundredths(v) == IsFinite(v) /\ v.d = 1 /\ v.e >= 0 - 2
BelowThousand(v) == IsFinite(v) /\ ~AtLeastPow10(v, 3)

\* C12, as stated: abbreviate_number renders the quotient by the largest
\* scale that is at most the magnitude to two decimals, strips it as
\* format_number does (no ".00", no zero at the end of the decimals) and
\* appends the letter of the scale: 1000 gives "1K", 1500 "1.5K", 1234567
\* "1.23M", 2000000000 "2B"; below 1000 the text has no letter
C12_AbbreviateNumber ==
    call = "abbreviate_number" =>
        /\ amount = Float(1000, 1, 0) => result = <<"1", "K">>
        /\ amount = Float(1500, 1, 0) => result = <<"1", ".", "5", "K">>
        /\ amount = Float(1234567, 1, 0) => result = <<"1", ".", "2", "3", "M">>
        /\ amount = Float(2, 1, 9) => result = <<"2", "B">>
        /\ IsFinite(amount) =>
               LET last == result[Len(result)]
                   letter == IF AtLeastPow10(amount, 9) THEN "B"
                             ELSE IF AtLeastPow10(amount, 6) THEN "M"
                             ELSE IF AtLeastPow10(amount, 3) THEN "K"
                             ELSE "none"
                   text == IF letter = "none" THEN result
                           ELSE SubSeq(result, 1, Len(result) - 1)
               IN  /\ letter # "none" => last = letter
                   /\ letter = "none" => last \notin {"K", "M", "B"}
                   /\ text[Len(text)] # "."
                   /\ "." \in Chars(text) => text[Len(text)] # "0"

\* C13: format_number gives the magnitude rounded to hundredths, its whole
\* part grouped by commas, with at most two decimals and neither a zero at
\* the end of the decimals nor a point at the end of the text: 1500 gives
\* "1,500" and 1500.5 gives "1,500.5"
C13_FormatNumber ==
    call = "format_number" =>
        /\ result # <<>>
        /\ result[Len(result)] # "."
        /\ "." \in Chars(result) => result[Len(result)] # "0"
        /\ IsFinite(amount) =>
               /\ IsGrouped(IntPart(result))
               /\ Len(FracPart(result)) <= 2
               /\ Chars(FracPart(result)) \subseteq DigitChars \ {LongNines}
               /\ WithinHalfCent(amount, float(Remove(result, ",")))
        /\ amount = Float(1500, 1, 0) => result = <<"1", ",", "5", "0", "0">>
        /\ amount = Float(15005, 1, 0 - 1) =>
               result = <<"1", ",", "5", "0", "0", ".", "5">>

C13_Witness ==
    /\ call = "format_number"
    /\ amount = Float(15005, 1, 0 - 1)
    /\ result = <<"1", ",", "5", "0", "0", ".", "5">>

\* C14: parse_currency_value reads the text format_number gives for a
\* magnitude below 1000 as that magnitude rounded to hundredths, which for a
\* whole number of hundredths is the magnitude itself
C14_RoundTrip ==
    (call = "format_then_parse" /\ BelowThousand(amount)) =>
        /\ IsFinite(result)
        /\ WithinHalfCent(amount, result)
        /\ IsHundredths(result)
        /\ IsHundredths(amount) => result = amount

C14_Witness ==
    /\ call = "format_then_parse"
    /\ amount = Float(99999, 1, 0 - 2)
    /\ result = amount

(***************************************************************************)
(* Temporary channels (SpecSpree).                                         *)
(***************************************************************************)
Tracked(c) == c \in Keys(ephemeral_channels)
Data(c) == ItemGet(ephemeral_channels, c)

\* this step issues channel.delete for c
DeleteIssued(c) ==
    /\ Len(deleted') = Len(deleted) + 1
    /\ deleted'[Len(deleted')].channel = c

\* the presses of a button of c that were answered with the acknowledgement
Acknowledged(kind, c) ==
    {k \in Presses : /\ handlers[k].kind = kind
                     /\ handlers[k].channel = c
                     /\ handlers[k].pc = "acknowledged"}

\* C15, as stated: the loop issues no delete for a channel whose Dismiss
\* was acknowledged before
C15_DismissedNeverDeleted ==
    [][\A c \in ChannelIds :
           DeleteIssued(c) => Acknowledged("dismiss", c) = {}]_vars

\* C16, as stated: when the loop issues the delete of a channel, the time is
\* at or after the channel's creation time plus the default seconds of its
\* category plus 3600 seconds for every Extend acknowledged before
C16_NotBeforeTimerExpires ==
    [][\A c \in ChannelIds :
           DeleteIssued(c) =>
               now >= guild[c].created_at + guild[c].default_seconds
                          + EXTEND_SECONDS * Cardinality(Acknowledged("extend", c))]_vars

Expired(c) == Tracked(c) /\ ~Data(c).dismissed /\ Data(c).end_time <= now
AutoDeleted(c) ==
    /\ ~Tracked(c)
    /\ \E k \in 1..Len(deleted) : deleted[k].channel = c

\* C17, as stated (SpecSpreeFair): a tracked channel that is not dismissed
\* and whose end_time has passed is eventually removed from
\* ephemeral_channels with a delete issued for it, unless it is dismissed or
\* extended beyond the clock first
C17_ExpiredEventuallyDeleted ==
    \A c \in ChannelIds :
        Expired(c) ~> (AutoDeleted(c) \/ (Tracked(c) /\ ~Expired(c)))

\* this step is the run of extend_button for c that ends in the
\* acknowledgement
ExtendAccepted(c) ==
    handlers' = Append(handlers, [kind |-> "extend", channel |-> c, pc |-> "edit"])

\* C18: the run of extend_button that is acknowledged adds 3600 seconds to
\* the end_time and to the base_seconds of its channel and leaves the
\* dismissed flag, the message and every other channel's data as they were;
\* the acknowledgement itself changes no channel data
C18_ExtendFrame ==
    [][/\ \A c \in ChannelIds :
              ExtendAccepted(c) =>
                  /\ Tracked(c)
                  /\ ~Data(c).dismissed
                  /\ Len(ephemeral_channels') = Len(ephemeral_channels)
                  /\ \A k \in 1..Len(ephemeral_channels) :
                         LET old == ephemeral_channels[k]
                             new == ephemeral_channels'[k]
                         IN  /\ new.key = old.key
                             /\ new.data.dismissed = old.data.dismissed
                             /\ new.data.message_id = old.data.message_id
                             /\ new.data.end_time - old.data.end_time
                                    = IF old.key = c THEN EXTEND_SECONDS ELSE 0
                             /\ new.data.base_seconds - old.data.base_seconds
                                    = IF old.key = c THEN EXTEND_SECONDS ELSE 0
       /\ \A c \in ChannelIds :
              Acknowledged("extend", c)' # Acknowledged("extend", c) =>
                  ephemeral_channels' = ephemeral_channels]_vars

C18_Witness ==
    \E c \in ChannelIds :
        /\ Acknowledged("extend", c) # {}
        /\ Tracked(c)
        /\ ~Data(c).dismissed
        /\ Data(c).base_seconds = guild[c].default_seconds + EXTEND_SECONDS
        /\ Data(c).end_time = guild[c].created_at + Data(c).base_seconds
        /\ \E other \in ChannelIds \ {c} :
               /\ Tracked(other)
               /\ Data(other).base_seconds = guild[other].default_seconds

(***************************************************************************)
(* The heist_summary commands (Spec).                                      *)
(***************************************************************************)
Answered(s, what) ==
    [to |-> IF s.command = "slash" THEN "interaction" ELSE "channel",
     what |-> what]

\* C19: a command whose heists_count is below 1 or above 5 sends the range
\* error and nothing else and scans nothing; every scan a command runs has
\* its limit in 1..5, and the list it returns is no longer than the limit
C19_RangeError ==
    summary.kind # "none" =>
        /\ (summary.heists_count < 1 \/ summary.heists_count > 5) =>
               /\ summary.sent = <<Answered(summary, RangeErrorText)>>
               /\ summary.scans = <<>>
        /\ \A k \in 1..Len(summary.scans) : summary.scans[k] \in 1..5
        /\ Len(FoundOf(summary)) <= summary.heists_count

C19_Witness ==
    /\ summary.kind = "range_error"
    /\ summary.command = "prefix"
    /\ summary.heists_count = 6
    /\ QualifyingIds(history) # {}

\* no fetched message of hist qualifies, and the scan of none of them raises
NoDetections(hist) ==
    /\ QualifyingIds(hist) = {}
    /\ \A i \in 1..Len(hist) :
           (hist[i].author = DANK_MEMER_ID /\ HasTrigger(CombinedContent(hist[i])))
               => ~IsException(ExtractPayout(CombinedContent(hist[i])))

\* C20: a command with heists_count in 1..5 whose scan finds no payout
\* message sends the "No heist payouts found ..." message, once, and nothing
\* else (no summary), scans once and does not raise
C20_NotFound ==
    [][(/\ history' = history
        /\ summary'.kind # "none"
        /\ summary'.heists_count \in 1..5
        /\ NoDetections(history))
          => /\ summary'.kind = "not_found"
             /\ summary'.sent = <<Answered(summary', NotFoundText)>>
             /\ summary'.scans = <<summary'.heists_count>>]_vars

C20_Witness ==
    /\ summary.kind = "not_found"
    /\ summary.command = "slash"
    /\ summary.sent = <<[to |-> "interaction", what |-> NotFoundText]>>
    /\ Len(history) = MaxHist
    /\ NoDetections(history)

\* the messages of hist that Dank Memer wrote
ByDankMemer(hist) == SelectSeq(hist, LAMBDA m : m.author = DANK_MEMER_ID)

\* the listener is switched on for the channel of the messages
SwitchedOn(cfg) == Get(cfg, "channel", FALSE) \/ Get(cfg, "global", FALSE)

\* the ids of the on_message calls that wait to reply
PendingIds == {pending[k].id : k \in 1..Len(pending)}

\* C21: a message that Dank Memer did not write is never detected, whatever
\* its text: the listener never replies to it and never starts a reply, it
\* is never in the list of a summary, and a heist_summary command answers
\* what it would answer were those messages not in the channel at all (they
\* do not count toward the limit).
C21_OnlyDankMemer ==
    [][/\ \A i \in 1..Len(history') :
              history'[i].author # DANK_MEMER_ID
              => /\ replies'[i] = <<>>
                 /\ i \notin PendingIds'
                 /\ ~InSummary(i)'
       /\ summary' # summary
          => summary' = HeistSummaryOutcome(summary'.command, ByDankMemer(history),
                                            summary'.heists_count, <<>>, FALSE)]_vars

\* a payout message of Dank Memer, then the same kind of message of another
\* account: both delivered to the enabled listener, then a summary of one heist
C21_Witness ==
    /\ Len(history) = 2
    /\ history[1].author = DANK_MEMER_ID
    /\ history[2].author = OtherUser
    /\ Triggered(2)
    /\ ScanOf(2).kind = "scanned"
    /\ ScanOf(2).total_coins # None
    /\ ScanOf(2).payout_count > 0
    /\ SwitchedOn(config_data)
    /\ {1, 2} \subseteq processed_messages
    /\ replies[1] # <<>>
    /\ summary.kind = "posted"
    /\ summary.heists_count = 1
    /\ summary.found[1].id = 1

\* C22: the listener replies to a message only when, in the run of
\* on_message that handled it, the configuration of the guild had the flag of
\* the message's channel or the global flag true: a reply is only ever
\* delivered by a call that waits to reply, and a call only starts to wait
\* when one of the two flags is true; with both absent or false nothing is
\* sent, whatever the flags of other channels are and whatever the
\* configuration becomes later.
C22_RepliesOnlyWhenEnabled ==
    [][\A i \in 1..Len(history) :
           /\ replies'[i] # replies[i] => i \in PendingIds
           /\ (i \in PendingIds' /\ i \notin PendingIds) => SwitchedOn(config_data)
           /\ (i \in processed_messages' /\ i \notin processed_messages
               /\ ~SwitchedOn(config_data))
              => (i \notin PendingIds' /\ replies' = replies)]_vars

\* two payout messages of Dank Memer: the first handled while the calculator
\* was enabled and replied to, the second handled after it was disabled
C22_Witness ==
    /\ Len(history) = 2
    /\ history[1].author = DANK_MEMER_ID
    /\ history[2].author = DANK_MEMER_ID
    /\ {1, 2} \subseteq processed_messages
    /\ pending = <<>>
    /\ replies[1] # <<>>
    /\ replies[2] = <<>>
    /\ ~SwitchedOn(config_data)
    /\ QualifyingIds(history) = {1, 2}

\* the calls of on_message that wait to reply to message i
Waiting(i) == {k \in 1..Len(pending) : pending[k].id = i}

\* C23: however often, and however overlapping, a message is delivered to
\* on_message, it gets at most one reply: the replies delivered to a message
\* and the calls still waiting to reply to it are never more than one in
\* all, so an image and an embed are never both delivered.
C23_AtMostOneReply ==
    \A i \in 1..Len(history) : Len(replies[i]) + Cardinality(Waiting(i)) <= 1

\* a message delivered twice with the image template: the image failed, the
\* call waits to reply the embed
C23_Witness ==
    /\ Len(history) >= 1
    /\ delivered[1] = MaxDeliveries
    /\ Get(config_data, "template", "text") = "image"
    /\ Waiting(1) # {}
    /\ \A k \in Waiting(1) : pending[k].outcome.form = "embed"
    /\ replies[1] = <<>>

\* the k-th answer says the calculator is now enabled for the channel of the
\* messages or for the server
EnabledAgain(k) ==
    /\ answers[k].changed
    /\ answers[k].state = "enabled"
    /\ answers[k].scope \in {"channel", "global"}

\* a command was answered "now disabled" for the channel of the messages
\* (heist_calculate with full_server=False, or heist_cal toggle), and none
\* since was answered "now enabled"
DisabledForChannel ==
    \E k \in 1..Len(answers) :
        /\ answers[k].changed
        /\ answers[k].command \in {"heist_calculate", "toggle"}
        /\ answers[k].scope = "channel"
        /\ answers[k].state = "disabled"
        /\ \A j \in (k + 1)..Len(answers) : ~EnabledAgain(j)

\* C24: once the calculator was acknowledged as disabled for the channel,
\* the listener delivers no reply in that channel and starts none, until it
\* is enabled again.
C24_NoReplyWhileDisabled ==
    [][DisabledForChannel => (replies' = replies /\ PendingIds' \subseteq PendingIds)]_vars

\* C25: a batch scan keeps no state from one message to the next: what a
\* heist_summary command lists for a message of the channel is what the
\* same scan lists for a channel that holds this message only, so its total
\* and count come from its own text, and a message that is not detected
\* alone is not detected next to others.
C25_NoCrossMessageState ==
    summary.kind = "posted" =>
        \A k \in 1..Len(summary.found) :
            LET alone == get_recent_heist_messages(
                             <<history[summary.found[k].id]>>, summary.heists_count)
            IN  /\ alone.kind = "ok"
                /\ alone.found = <<summary.found[k]>>

\* a message with a total and the count 0 next to a newer qualifying one, and
\* a summary of two heists: only the qualifying one is listed
C25_Witness ==
    /\ Len(history) = 2
    /\ Triggered(1)
    /\ history[1].author = DANK_MEMER_ID
    /\ ScanOf(1).kind = "scanned"
    /\ ScanOf(1).total_coins # None
    /\ ScanOf(1).payout_count = 0
    /\ QualifyingIds(history) = {2}
    /\ summary.kind = "posted"
    /\ summary.heists_count = 2
    /\ Len(summary.found) = 1
    /\ summary.found[1].id = 2

\* the runs of markers that are inserted
MarkerRuns == {<<"*">>, <<Backtick>>, <<"*", "*">>, <<Backtick, "*">>}

InsertAt(line, p, run) == SubSeq(line, 1, p) \o run \o SubSeq(line, p + 1, Len(line))

\* line with another run of markers somewhere, without one of its markers,
\* or without any
MarkerEditsOfLine(line) ==
    {InsertAt(line, p, run) : p \in 0..Len(line), run \in MarkerRuns}
        \cup {Without(line, p) : p \in {q \in 1..Len(line) : line[q] \in Markers}}
        \cup {SelectSeq(line, LAMBDA c : c \notin Markers)}

\* the total-raised lines and the payout-count lines of a text
PayoutLines(text) ==
    {k \in 1..Len(text) :
        LET clean_line == Strip(SelectSeq(text[k], LAMBDA c : c \notin Markers))
        IN  /\ ~Contains(text[k], TriggerPhrase)
            /\ \/ total_pattern_search(clean_line) # None
               \/ count_pattern_search(clean_line) # None}

\* text with the markers of one of its payout lines edited
MarkerEdits(text) ==
    UNION {{[text EXCEPT ![k] = e] : e \in MarkerEditsOfLine(text[k])} :
              k \in PayoutLines(text)} \ {text}

\* the message of Dank Memer whose content is text
Posted(text) == Message(1, DANK_MEMER_ID, [content |-> text, embeds |-> <<>>])

\* C26: runs of backticks and asterisks in a total-raised line or a
\* payout-count line do not matter: a text and the same text with such runs
\* inserted or removed in one of these lines give the same total, the same
\* count (or the same exception) and the same detection.
C26_MarkersIgnored ==
    call = "scan" =>
        \A text \in MarkerEdits(body) :
            /\ ExtractPayout(text) = result
            /\ DetectionOf(Posted(text)) = DetectionOf(Posted(body))

\* a qualifying text: trigger line, total line, count line, the last two
\* with their markers
C26_Witness ==
    /\ call = "scan"
    /\ HasTrigger(body)
    /\ Cardinality(PayoutLines(body)) = 2
    /\ \A k \in PayoutLines(body) : \E q \in 1..Len(body[k]) : body[k][q] \in Markers
    /\ result.kind = "scanned"
    /\ result.total_coins = Float(1000, 1, 0)
    /\ result.payout_count = 2

\* C27: while a tick of update_embeds_loop waits at an await inside its
\* iteration over ephemeral_channels (fetch_message / msg.edit of a
\* countdown), no step of another handler adds an entry to the dict or
\* removes one.
C27_NoResizeMidIteration ==
    [][(loop.pc = "refresh" /\ loop' = loop)
       => Keys(ephemeral_channels') = Keys(ephemeral_channels)]_vars

\* channel c has no entry in items, or a dismissed one
DismissedOrEnded(items, c) ==
    ItemGet(items, c) = None \/ ItemGet(items, c).dismissed

\* the press this step starts: the handler it appends
Pressed == handlers'[Len(handlers')]

\* C28: a press of Extend 1h or Dismiss for a channel that is dismissed or
\* no longer tracked is refused ("Auto-delete is already dismissed or
\* ended.") and changes neither ephemeral_channels (no entry, end_time,
\* base_seconds or dismissed flag) nor the saved data; and an entry that is
\* dismissed stays dismissed for as long as it is tracked.
C28_RefusedPressChangesNothing ==
    [][/\ (Len(handlers') = Len(handlers) + 1
           /\ Pressed.kind \in {"extend", "dismiss"}
           /\ DismissedOrEnded(ephemeral_channels, Pressed.channel))
          => /\ Pressed.pc = "refused"
             /\ ephemeral_channels' = ephemeral_channels
             /\ spree_data' = spree_data
       /\ \A c \in Keys(ephemeral_channels) \cap Keys(ephemeral_channels') :
              ItemGet(ephemeral_channels, c).dismissed
              => ItemGet(ephemeral_channels', c).dismissed]_vars

\* Dismiss was acknowledged for a channel, then Extend 1h was pressed: the
\* press is refused and the channel is still tracked and dismissed
C28_Witness ==
    \E k \in Presses :
        /\ handlers[k].kind = "extend"
        /\ handlers[k].pc = "refused"
        /\ handlers[k].channel \in Keys(ephemeral_channels)
        /\ ItemGet(ephemeral_channels, handlers[k].channel).dismissed
        /\ \E j \in 1..(k - 1) :
               /\ handlers[j].kind = "dismiss"
               /\ handlers[j].channel = handlers[k].channel
               /\ handlers[j].pc = "acknowledged"

\* s is a concatenation of one or more <digits><unit> tokens
RECURSIVE IsTokens(_)
IsTokens(s) ==
    LET r == RunLen(s, TimeDigits)
    IN  /\ r >= 1
        /\ r < Len(s)
        /\ s[r + 1] \in TimeUnits
        /\ (r + 1 = Len(s) \/ IsTokens(Suffix(s, r + 2)))

\* the seconds a concatenation of tokens denotes
RECURSIVE Denoted(_)
Denoted(s) ==
    IF s = <<>> THEN 0
    ELSE LET r == RunLen(s, TimeDigits)
         IN  DigitsToInt(SubSeq(s, 1, r)) * UnitSeconds(s[r + 1])
                 + Denoted(Suffix(s, r + 2))

\* C30: parse_time_string returns the seconds its string denotes when the
\* string is a concatenation of <digits><unit> tokens ("1h30m" gives 5400),
\* and raises ValueError for every other string.
C30_ParseTimeString ==
    call = "parse_time_string" =>
        /\ IF IsTokens(raw)
           THEN result = [kind |-> "int", n |-> Denoted(raw)]
           ELSE result = ValueError
        /\ raw = <<"1", "h", "3", "0", "m">> => result = [kind |-> "int", n |-> 5400]

\* channel c was created, while the cog ran, as a text channel in a category
\* that was monitored then
CreatedMonitored(c) ==
    /\ c # OldChannel
    /\ c \in DOMAIN guild
    /\ guild[c].type = "text"
    /\ guild[c].monitored

\* this step is the return of channel.send of the countdown of c
EmbedSent(c) ==
    \E k \in 1..Len(handlers) :
        /\ handlers[k].kind = "create"
        /\ handlers[k].channel = c
        /\ handlers[k].pc = "send"
        /\ handlers'[k].pc = "tracked"

\* C29: a channel gets an entry in ephemeral_channels only in the step where
\* the countdown embed of its on_guild_channel_create was sent, and only if
\* it was created as a text channel in a category monitored at that time;
\* the loop issues a delete only for such a channel; so a channel of an
\* unmonitored category, a channel that is not a text channel and a channel
\* older than the monitoring of its category are never tracked and never
\* deleted; and a change of the monitored categories changes no entry of
\* ephemeral_channels.
C29_TrackedOnlyByCreation ==
    [][/\ \A c \in Keys(ephemeral_channels') \ Keys(ephemeral_channels) :
              EmbedSent(c) /\ CreatedMonitored(c)
       /\ \A c \in {OldChannel} \cup ChannelIds :
              DeleteIssued(c) => CreatedMonitored(c)
       /\ \A c \in DOMAIN guild' :
              (c = OldChannel \/ guild'[c].type # "text" \/ ~guild'[c].monitored)
              => c \notin Keys(ephemeral_channels')
       /\ ephemeral_categories' # ephemeral_categories
          => ephemeral_channels' = ephemeral_channels]_vars

\* channel 1 was created as a text channel in the monitored category and is
\* tracked; the category is no longer monitored; channel 2 is a voice
\* channel created in the category while it was monitored; the old channel
\* of the category is still there; none of the two is tracked
C29_Witness ==
    /\ Category \notin DOMAIN ephemeral_categories
    /\ Tracked(1)
    /\ CreatedMonitored(1)
    /\ guild[1].category = Category
    /\ 2 \in DOMAIN guild
    /\ guild[2].type = "voice"
    /\ guild[2].monitored
    /\ ~Tracked(2)
    /\ OldChannel \in DOMAIN guild
    /\ ~Tracked(OldChannel)
    /\ now > 0

====
